---- MODULE Spec2Model ----
(***************************************************************************)
(* A model of the dataflow executor of mpc-stark                           *)
(* (src/src/fabric/executor.rs).  The executor owns four buffers           *)
(* (operations, dependencies, results, waiters), pops one message at a     *)
(* time from the job queue and handles it to completion.  The producers of *)
(* the job queue (the fabric's allocation calls, the inbound network       *)
(* receiver, result handles being polled) are the environment.             *)
(*                                                                         *)
(* A second part models the authenticated (SPDZ) algebra on curve points   *)
(* (src/src/algebra/authenticated_stark_point.rs): the operations on an    *)
(* authenticated point as the two parties apply them, the authenticated    *)
(* open, and the dataflow graph the open schedules on one party.           *)
(***************************************************************************)
EXTENDS Integers, Sequences, FiniteSets, TLC

\* ------------------------------------------------------------------ bounds
\* number of operations the fabric schedules
MaxOps == 2
\* number of result ids the fabric allocates
MaxResults == 4
\* longest argument list of an operation
MaxArgs == 2
\* largest output arity of a batch gate
MaxArity == 2
\* number of messages produced for the job queue during the session
MaxMessages == 3
\* number of messages waiting in the job queue
MaxQueue == 2
\* number of waiters (polls of a pending handle)
MaxWaiters == 2
\* number of malformed or unsolicited messages the peer may send
MaxInject == 1
\* size of the value domain that stands for ResultValue
NumValues == 2

\* The value a wrapping decrement of 0usize produces.  It stands for
\* usize::MAX (2^64 - 1), which the model checker's 32-bit integers cannot
\* hold; all that the executor does with it is compare it with 0.
UsizeMax == 2147483647

Values == 0 .. (NumValues - 1)
ResultIds == 0 .. (MaxResults - 1)
OpIds == 0 .. (MaxOps - 1)
WaiterIds == 0 .. (MaxWaiters - 1)

NoPanic == "none"

VARIABLES
    job_queue,        \* Executor.job_queue: the FIFO of ExecutorMessage
    operations,       \* Executor.operations: op id -> in-flight Operation
    dependencies,     \* Executor.dependencies: result id -> op ids waiting on it
    results,          \* Executor.results: result id -> value
    waiters,          \* Executor.waiters: result id -> waiters registered
    outbound_queue,   \* FabricInner.outbound_queue: every NetworkOutbound sent
    pc,               \* position of Executor::run: running, shutdown, panicked
    panic,            \* which unwrap/assert ended the run, NoPanic otherwise
    result_buffer,    \* waiter -> content of its shared result_buffer
    wakes,            \* waiter -> number of times its waker was invoked
    evals,            \* op id -> number of times compute_result ran on it
    writes,           \* result id -> number of insertions into results
    taken,            \* type of the message the executor took last
    found,            \* waiter -> its id, and whether the result was there at registration
    next_result_id,   \* the fabric's result id allocator
    next_op_id,       \* the fabric's operation id allocator
    next_waiter,      \* number of waiters created so far
    circuit,          \* op id -> type, result ids and closure arity as scheduled
    expected,         \* result id -> the value the circuit defines for it
    placeholders,     \* result id -> the value the peer sends under this id
    undelivered,      \* placeholders whose peer message is still in the network
    injected,         \* number of malformed peer messages so far
    shutdown_sent,    \* whether shutdown() was called
    mac_key,          \* party -> its share of the MAC key
    auth_point,       \* party -> its AuthenticatedStarkPointResult
    secret,           \* the point the computation so far defines
    last_op,          \* the operation that produced auth_point
    corrupt,          \* what a party changed outside the protocol, if anything
    opened,           \* party -> value and flag of its authenticated open
    local,            \* the opening party's share, mac, modifier, key share, blinder
    scheduled,        \* whether open_authenticated was called
    graph,            \* result of each gate of open_authenticated
    received,         \* the peer's values that have arrived
    sent,             \* the payloads put on the outbound queue, in order
    polled,           \* what the last poll of the open's future returned
    mpc_scalar,       \* party -> the MpcScalar under computation: value, visibility
    opened_scalar,    \* party -> what the last open or commit_and_open returned
    network,          \* party -> number of sends on the MpcNetwork so far
    beaver_source,    \* number of triplets taken from the SharedValueSource
    last_scalar_op,   \* the operation that produced mpc_scalar, and its operand
    next_id,          \* party -> the next result id its fabric allocates
    point_ids,        \* party -> result ids of share, mac, public_modifier
    party,            \* party -> its position and local data in the two-party call under way
    wire,             \* party -> the messages sent to it and not yet received, in order
    call              \* arguments and results of the local calls under comparison

exec_vars == <<operations, dependencies, results, waiters, outbound_queue,
               result_buffer, wakes, evals, writes>>
env_vars == <<next_result_id, next_op_id, next_waiter, circuit, expected, placeholders,
              undelivered, injected, shutdown_sent>>
fabric_vars == <<job_queue, exec_vars, pc, panic, taken, found, env_vars>>
alg_vars == <<mac_key, auth_point, secret, last_op, corrupt, opened>>
open_vars == <<local, scheduled, graph, received, sent, polled>>
scalar_vars == <<mpc_scalar, opened_scalar, network, beaver_source, last_scalar_op>>
id_vars == <<next_id, point_ids>>
session_vars == <<party, wire, call>>
vars == <<fabric_vars, alg_vars, open_vars, scalar_vars, id_vars, session_vars>>

\* -------------------------------------------------------- growable buffer
\* A buffer is a function whose domain is the set of populated slots.
EmptyBuffer == [x \in {} |-> 0]

BufHas(buf, id) == id \in DOMAIN buf

BufInsert(buf, id, v) ==
    [x \in (DOMAIN buf) \cup {id} |-> IF x = id THEN v ELSE buf[x]]

BufTake(buf, id) == [x \in (DOMAIN buf) \ {id} |-> buf[x]]

\* the elements of a sequence
Range(f) == {f[x] : x \in DOMAIN f}

\* ------------------------------------------------------- operations
\* Operation::result_ids: result_id, result_id + 1, ... (output_arity ids)
result_ids(op) == [i \in 1 .. op.output_arity |-> op.result_id + (i - 1)]

RECURSIVE SumSeq(_)
SumSeq(s) == IF s = <<>> THEN 0 ELSE s[1] + SumSeq(Tail(s))

\* The closure of a Gate or of a Network operation: a pure function of the
\* inputs, here an affine map over the value domain.
GateFunction(function, inputs) == (function.k + SumSeq(inputs)) % NumValues

\* The closure of a GateBatch: function.n values, whatever output_arity is.
BatchFunction(function, inputs) ==
    [j \in 1 .. function.n |-> (function.k + j + SumSeq(inputs)) % NumValues]

\* -------------------------------------------------------------- executor
\* The executor's fields, gathered so that a handler is a function of them.
\* overflow_checks is the build's choice for integer overflow: trap or wrap.
Exec(overflow_checks) ==
    [overflow_checks |-> overflow_checks, operations |-> operations, dependencies |-> dependencies,
     results |-> results, waiters |-> waiters,
     outbound_queue |-> outbound_queue, result_buffer |-> result_buffer,
     wakes |-> wakes, evals |-> evals, writes |-> writes, panic |-> NoPanic]

Panicked(e) == e.panic # NoPanic

\* insert_result without its assertion: a duplicate is accepted
insert_result_unchecked(e, result) ==
    [e EXCEPT !.results = BufInsert(@, result.id, result.value),
              !.writes[result.id] = @ + 1]

\* Executor::insert_result: GrowableBuffer::insert replaces the slot and
\* returns what was there; the assertion on it follows the write.
insert_result(e, result) ==
    LET prev == BufHas(e.results, result.id)
        e1 == [e EXCEPT !.results = BufInsert(@, result.id, result.value),
                        !.writes[result.id] = @ + 1]
    IN  IF prev THEN [e1 EXCEPT !.panic = "duplicate result id"] ELSE e1

\* Executor::wake_waiters_on_result
RECURSIVE wake_each(_, _, _, _)
wake_each(e, ws, i, value) ==
    IF i > Len(ws) THEN e
    ELSE wake_each([e EXCEPT !.result_buffer = BufInsert(@, ws[i], value),
                             !.wakes[ws[i]] = @ + 1],
                   ws, i + 1, value)

\* wake_waiters_on_result reading the index with get instead of remove
wake_waiters_keep(e, result_id) ==
    IF BufHas(e.waiters, result_id)
    THEN IF ~BufHas(e.results, result_id)
         THEN [e EXCEPT !.panic = "wake: result absent"]
         ELSE wake_each(e, e.waiters[result_id], 1, e.results[result_id])
    ELSE e

wake_waiters_on_result(e, result_id) ==
    IF BufHas(e.waiters, result_id)
    THEN LET ws == e.waiters[result_id]
             e1 == [e EXCEPT !.waiters = BufTake(@, result_id)]
         IN  IF ~BufHas(e1.results, result_id)
             THEN [e1 EXCEPT !.panic = "wake: result absent"]
             ELSE wake_each(e1, ws, 1, e1.results[result_id])
    ELSE e

\* the loop of append_ready_ops without its `continue`: an operation is
\* marked ready at every decrement
RECURSIVE append_each_eager(_, _, _, _)
append_each_eager(e, deps, i, ready_ops) ==
    IF i > Len(deps) \/ Panicked(e) THEN [e |-> e, ops |-> ready_ops]
    ELSE LET op_id == deps[i] IN
         IF ~BufHas(e.operations, op_id)
         THEN [e |-> [e EXCEPT !.panic = "append_ready_ops: operation absent"],
               ops |-> ready_ops]
         ELSE LET cur == e.operations[op_id].inflight_args IN
              IF cur = 0
              THEN [e |-> [e EXCEPT !.panic = "inflight_args underflow"],
                    ops |-> ready_ops]
              ELSE append_each_eager(
                       [e EXCEPT !.operations[op_id].inflight_args = cur - 1],
                       deps, i + 1, Append(ready_ops, op_id))

\* Executor::append_ready_ops: the loop over dependencies[id]
RECURSIVE append_each(_, _, _, _)
append_each(e, deps, i, ready_ops) ==
    IF i > Len(deps) \/ Panicked(e) THEN [e |-> e, ops |-> ready_ops]
    ELSE LET op_id == deps[i] IN
         IF ~BufHas(e.operations, op_id)
         THEN [e |-> [e EXCEPT !.panic = "append_ready_ops: operation absent"],
               ops |-> ready_ops]
         ELSE LET cur == e.operations[op_id].inflight_args IN
              IF cur = 0
              THEN IF e.overflow_checks
                   THEN [e |-> [e EXCEPT !.panic = "inflight_args underflow"],
                         ops |-> ready_ops]
                   ELSE append_each(
                            [e EXCEPT !.operations[op_id].inflight_args = UsizeMax],
                            deps, i + 1, ready_ops)
              ELSE LET e1 == [e EXCEPT !.operations[op_id].inflight_args = cur - 1]
                   IN  IF cur - 1 > 0
                       THEN append_each(e1, deps, i + 1, ready_ops)
                       ELSE append_each(e1, deps, i + 1, Append(ready_ops, op_id))

append_ready_ops(e, id, ready_ops) ==
    IF BufHas(e.dependencies, id)
    THEN append_each(e, e.dependencies[id], 1, ready_ops)
    ELSE [e |-> e, ops |-> ready_ops]

\* compute_result forwarding the value of every operation type to the peer
compute_result_send_all(e, op) ==
    LET rids == result_ids(op)
        absent == \E i \in 1 .. Len(op.args) : ~BufHas(e.results, op.args[i])
        inputs == [i \in 1 .. Len(op.args) |-> e.results[op.args[i]]]
        value == GateFunction(op.function, inputs)
        e1 == [e EXCEPT !.evals[op.id] = @ + 1,
                        !.outbound_queue =
                            Append(@, [result_id |-> rids[1], payload |-> value])]
    IN  IF absent
        THEN [e |-> [e EXCEPT !.panic = "compute_result: argument absent"],
              res |-> <<>>]
        ELSE IF op.op_type = "GateBatch"
             THEN LET output == BatchFunction(op.function, inputs)
                      n == IF Len(rids) < Len(output) THEN Len(rids) ELSE Len(output)
                  IN  [e |-> e1,
                       res |-> [i \in 1 .. n |-> [id |-> rids[i], value |-> output[i]]]]
             ELSE [e |-> e1, res |-> << [id |-> rids[1], value |-> value] >>]

\* compute_result publishing every value of a batch under the first result id
compute_result_same_id(e, op) ==
    LET rids == result_ids(op)
        absent == \E i \in 1 .. Len(op.args) : ~BufHas(e.results, op.args[i])
        inputs == [i \in 1 .. Len(op.args) |-> e.results[op.args[i]]]
        e1 == [e EXCEPT !.evals[op.id] = @ + 1]
    IN  IF absent
        THEN [e |-> [e EXCEPT !.panic = "compute_result: argument absent"],
              res |-> <<>>]
        ELSE CASE op.op_type = "Gate" ->
                    [e |-> e1,
                     res |-> << [id |-> op.result_id,
                                 value |-> GateFunction(op.function, inputs)] >>]
               [] op.op_type = "GateBatch" ->
                    LET output == BatchFunction(op.function, inputs)
                        n == IF Len(rids) < Len(output) THEN Len(rids) ELSE Len(output)
                    IN  [e |-> e1,
                         res |-> [i \in 1 .. n |->
                                     [id |-> op.result_id, value |-> output[i]]]]
               [] op.op_type = "Network" ->
                    LET result_id == rids[1]
                        payload == GateFunction(op.function, inputs)
                    IN  [e |-> [e1 EXCEPT !.outbound_queue =
                                    Append(@, [result_id |-> result_id,
                                               payload |-> payload])],
                         res |-> << [id |-> result_id, value |-> payload] >>]

\* Executor::compute_result
compute_result(e, op) ==
    LET rids == result_ids(op)
        absent == \E i \in 1 .. Len(op.args) : ~BufHas(e.results, op.args[i])
        inputs == [i \in 1 .. Len(op.args) |-> e.results[op.args[i]]]
        e1 == [e EXCEPT !.evals[op.id] = @ + 1]
    IN  IF absent
        THEN [e |-> [e EXCEPT !.panic = "compute_result: argument absent"],
              res |-> <<>>]
        ELSE CASE op.op_type = "Gate" ->
                    [e |-> e1,
                     res |-> << [id |-> op.result_id,
                                 value |-> GateFunction(op.function, inputs)] >>]
               [] op.op_type = "GateBatch" ->
                    LET output == BatchFunction(op.function, inputs)
                        n == IF Len(rids) < Len(output) THEN Len(rids) ELSE Len(output)
                    IN  [e |-> e1,
                         res |-> [i \in 1 .. n |-> [id |-> rids[i], value |-> output[i]]]]
               [] op.op_type = "Network" ->
                    LET result_id == rids[1]
                        payload == GateFunction(op.function, inputs)
                    IN  [e |-> [e1 EXCEPT !.outbound_queue =
                                    Append(@, [result_id |-> result_id,
                                               payload |-> payload])],
                         res |-> << [id |-> result_id, value |-> payload] >>]

\* Executor::execute_operations: the inner loop over the results of one op
RECURSIVE publish_results(_, _, _, _)
publish_results(e, res, i, ops) ==
    IF i > Len(res) \/ Panicked(e) THEN [e |-> e, ops |-> ops]
    ELSE LET a == append_ready_ops(e, res[i].id, ops)
             e2 == IF Panicked(a.e) THEN a.e ELSE insert_result(a.e, res[i])
             e3 == IF Panicked(e2) THEN e2 ELSE wake_waiters_on_result(e2, res[i].id)
         IN  publish_results(e3, res, i + 1, a.ops)

\* execute_operations without its loop: the operation at the back is evaluated
\* and its results published, and the operations this made ready are left
execute_operations_once(e, ops) ==
    IF Panicked(e) \/ ops = <<>> THEN e
    ELSE LET op_id == ops[Len(ops)]
             rest == SubSeq(ops, 1, Len(ops) - 1)
         IN  IF ~BufHas(e.operations, op_id)
             THEN [e EXCEPT !.panic = "execute_operations: operation absent"]
             ELSE LET op == e.operations[op_id]
                      cr == compute_result([e EXCEPT !.operations = BufTake(@, op_id)], op)
                  IN  publish_results(cr.e, cr.res, 1, rest).e

\* Executor::execute_operations: the outer loop, popping from the back
RECURSIVE execute_operations(_, _)
execute_operations(e, ops) ==
    IF Panicked(e) \/ ops = <<>> THEN e
    ELSE LET op_id == ops[Len(ops)]
             rest == SubSeq(ops, 1, Len(ops) - 1)
         IN  IF ~BufHas(e.operations, op_id)
             THEN [e EXCEPT !.panic = "execute_operations: operation absent"]
             ELSE LET op == e.operations[op_id]
                      cr == compute_result([e EXCEPT !.operations = BufTake(@, op_id)], op)
                      p == publish_results(cr.e, cr.res, 1, rest)
                  IN  execute_operations(p.e, p.ops)

\* handle_new_result that only stores the value and runs no dependent
handle_new_result_store_only(e, result) == insert_result(e, result)

\* handle_new_result matching a peer value by arrival order: the value goes
\* to the lowest placeholder still empty, whatever id the message carries
handle_new_result_in_order(e, result) ==
    LET empty == {r \in DOMAIN placeholders : ~BufHas(e.results, r)}
        id == IF empty = {} THEN result.id
              ELSE CHOOSE r \in empty : \A q \in empty : r <= q
        e1 == insert_result(e, [id |-> id, value |-> result.value])
        a == append_ready_ops(e1, id, <<>>)
    IN  IF Panicked(e1) THEN e1 ELSE execute_operations(a.e, a.ops)

\* Executor::handle_new_result
handle_new_result(e, result) ==
    LET e1 == insert_result(e, result)
        a == append_ready_ops(e1, result.id, <<>>)
    IN  IF Panicked(e1) THEN e1 ELSE execute_operations(a.e, a.ops)

\* Executor::handle_new_operation: the loop pushing op.id under every arg
RECURSIVE push_dependencies(_, _, _, _)
push_dependencies(deps, args, i, op_id) ==
    IF i > Len(args) THEN deps
    ELSE LET entry == IF BufHas(deps, args[i]) THEN deps[args[i]] ELSE <<>>
         IN  push_dependencies(BufInsert(deps, args[i], Append(entry, op_id)),
                               args, i + 1, op_id)

\* Executor::handle_new_operation
handle_new_operation(e, operation) ==
    LET n_ready == Cardinality({i \in 1 .. Len(operation.args) :
                                    BufHas(e.results, operation.args[i])})
        inflight_args == Len(operation.args) - n_ready
        op == [operation EXCEPT !.inflight_args = inflight_args]
    IN  IF inflight_args = 0
        THEN execute_operations(
                 [e EXCEPT !.operations = BufInsert(@, op.id, op)], <<op.id>>)
        ELSE [e EXCEPT !.dependencies = push_dependencies(@, op.args, 1, op.id),
                       !.operations = BufInsert(@, op.id, op)]

\* handle_new_waiter that only indexes the waiter
handle_new_waiter_index_only(e, waiter) ==
    LET id == waiter.result_id
        entry == IF BufHas(e.waiters, id) THEN e.waiters[id] ELSE <<>>
    IN  [e EXCEPT !.waiters = BufInsert(@, id, Append(entry, waiter.token))]

\* Executor::handle_new_waiter
handle_new_waiter(e, waiter) ==
    LET id == waiter.result_id
        entry == IF BufHas(e.waiters, id) THEN e.waiters[id] ELSE <<>>
        e1 == [e EXCEPT !.waiters = BufInsert(@, id, Append(entry, waiter.token))]
    IN  IF BufHas(e1.results, id) THEN wake_waiters_on_result(e1, id) ELSE e1

\* ------------------------------------------------------------ Executor::run
\* Store the executor's fields after a handler; a panic ends the run.
Commit(e) ==
    /\ operations' = e.operations
    /\ dependencies' = e.dependencies
    /\ results' = e.results
    /\ waiters' = e.waiters
    /\ outbound_queue' = e.outbound_queue
    /\ result_buffer' = e.result_buffer
    /\ wakes' = e.wakes
    /\ evals' = e.evals
    /\ writes' = e.writes
    /\ panic' = e.panic
    /\ pc' = IF Panicked(e) THEN "panicked" ELSE "running"

\* Executor::run: the loop pops the head of the job queue while running
Popped(type) ==
    /\ pc = "running"
    /\ job_queue # <<>>
    /\ Head(job_queue).type = type
    /\ job_queue' = Tail(job_queue)
    /\ taken' = type
    /\ UNCHANGED <<env_vars, alg_vars, open_vars, scalar_vars, id_vars, session_vars>>

\* Executor::run, arm ExecutorMessage::Result
RunResult ==
    /\ Popped("Result")
    /\ LET res == Head(job_queue).result IN
       /\ \E oc \in BOOLEAN : Commit(handle_new_result(Exec(oc), res))
       /\ UNCHANGED found

\* Executor::run, arm ExecutorMessage::Op
RunOp ==
    /\ Popped("Op")
    /\ LET op == Head(job_queue).op IN
       /\ \E oc \in BOOLEAN : Commit(handle_new_operation(Exec(oc), op))
       /\ UNCHANGED found

\* Executor::run, arm ExecutorMessage::NewWaiter
RunNewWaiter ==
    /\ Popped("NewWaiter")
    /\ LET waiter == Head(job_queue).waiter IN
       /\ \E oc \in BOOLEAN : Commit(handle_new_waiter(Exec(oc), waiter))
       /\ found' = BufInsert(found, waiter.token,
                              [result_id |-> waiter.result_id,
                               ready |-> BufHas(results, waiter.result_id)])

\* a Shutdown arm that goes on with the loop
shutdown_arm_continue(p) == p

\* What the Shutdown arm does to the loop: break
shutdown_arm(p) == "shutdown"

\* Executor::run, arm ExecutorMessage::Shutdown
RunShutdown ==
    /\ Popped("Shutdown")
    /\ pc' = shutdown_arm(pc)
    /\ UNCHANGED <<exec_vars, panic, found>>

ExecutorStep == RunResult \/ RunOp \/ RunNewWaiter \/ RunShutdown

\* ------------------------------------------------------------ environment
\* The producers of the job queue.  Their code is outside the executor; they
\* are modelled from the description of the fabric, the network adapter and
\* the result handle.

\* argument lists over the ids allocated so far
ArgLists == UNION {[1 .. m -> 0 .. (next_result_id - 1)] : m \in 0 .. MaxArgs}

\* messages produced so far: those put on the job queue and those the peer
\* owes for the placeholders allocated
Produced ==
    next_op_id + next_waiter + injected + (IF shutdown_sent THEN 1 ELSE 0)
        + Cardinality(DOMAIN placeholders)

Enqueue(msg) ==
    /\ Len(job_queue) < MaxQueue
    /\ job_queue' = Append(job_queue, msg)

\* The value the circuit defines for the j-th result of op, from the values it
\* defines for the op's arguments; Unresolved when the op can never publish it.
Unresolved == 0 - 1

Denotation(op, j) ==
    LET inputs == [i \in 1 .. Len(op.args) |-> expected[op.args[i]]]
    IN  IF \E i \in 1 .. Len(inputs) : inputs[i] = Unresolved THEN Unresolved
        ELSE IF op.op_type = "GateBatch"
             THEN IF j <= op.function.n
                  THEN BatchFunction(op.function, inputs)[j] ELSE Unresolved
             ELSE GateFunction(op.function, inputs)

\* the fabric allocates one op id and output_arity result ids, and enqueues;
\* budget bounds the number of messages of the session
new_op_within(budget, args, output_arity, op_type, function) ==
    LET op == [id |-> next_op_id, result_id |-> next_result_id,
               output_arity |-> output_arity, args |-> args,
               inflight_args |-> 0, op_type |-> op_type, function |-> function]
    IN  /\ Produced < budget
        /\ next_op_id < MaxOps
        /\ next_result_id + output_arity <= MaxResults
        /\ Enqueue([type |-> "Op", op |-> op])
        /\ next_op_id' = next_op_id + 1
        /\ next_result_id' = next_result_id + output_arity
        /\ circuit' = BufInsert(circuit, op.id,
                                [op_type |-> op_type, result_id |-> op.result_id,
                                 output_arity |-> output_arity, n |-> function.n])
        /\ expected' = [r \in 0 .. (next_result_id + output_arity - 1) |->
                            IF r < next_result_id THEN expected[r]
                            ELSE Denotation(op, r - next_result_id + 1)]
        /\ UNCHANGED <<alg_vars, open_vars, scalar_vars, id_vars, session_vars, exec_vars, pc, panic, taken, found, next_waiter,
                       placeholders, undelivered, injected, shutdown_sent>>

new_op(args, output_arity, op_type, function) ==
    new_op_within(MaxMessages, args, output_arity, op_type, function)

new_gate_op(args) == new_op(args, 1, "Gate", [k |-> next_op_id % NumValues, n |-> 1])

new_batch_gate_op(args, output_arity, n) ==
    new_op(args, output_arity, "GateBatch", [k |-> next_op_id % NumValues, n |-> n])

new_network_op(args) ==
    new_op(args, 1, "Network", [k |-> next_op_id % NumValues, n |-> 1])

\* the value the peer computes for id r: both parties run the same circuit, so
\* it is a function of the id
PeerValue(r) == (r + 1) % NumValues

\* the fabric allocates the id under which a value of the peer will arrive;
\* budget bounds the number of messages of the session
receive_value_within(budget) ==
    /\ Produced < budget
    /\ next_result_id < MaxResults
    /\ next_result_id' = next_result_id + 1
    /\ placeholders' = BufInsert(placeholders, next_result_id, PeerValue(next_result_id))
    /\ expected' = BufInsert(expected, next_result_id, PeerValue(next_result_id))
    /\ undelivered' = undelivered \cup {next_result_id}
    /\ UNCHANGED <<alg_vars, open_vars, scalar_vars, id_vars, session_vars, job_queue, exec_vars, pc, panic, taken, found,
                   next_op_id, next_waiter, circuit, injected, shutdown_sent>>

receive_value == receive_value_within(MaxMessages)

\* the inbound receiver injects the peer's message for placeholder r
network_deliver(r) ==
    /\ r \in undelivered
    /\ Enqueue([type |-> "Result", result |-> [id |-> r, value |-> placeholders[r]]])
    /\ undelivered' = undelivered \ {r}
    /\ UNCHANGED <<alg_vars, open_vars, scalar_vars, id_vars, session_vars, exec_vars, pc, panic, taken, found, next_result_id,
                   next_op_id, next_waiter, circuit, expected, placeholders, injected,
                   shutdown_sent>>

\* the inbound receiver injects a message nobody asked for: its id is whatever
\* the peer wrote on the wire
network_inject_within(budget, id, v) ==
    /\ Produced < budget
    /\ injected < MaxInject
    /\ Enqueue([type |-> "Result", result |-> [id |-> id, value |-> v]])
    /\ injected' = injected + 1
    /\ UNCHANGED <<alg_vars, open_vars, scalar_vars, id_vars, session_vars, exec_vars, pc, panic, taken, found, next_result_id,
                   next_op_id, next_waiter, circuit, expected, placeholders, undelivered,
                   shutdown_sent>>

network_inject(id, v) == network_inject_within(MaxMessages, id, v)

\* a result handle is polled before its value reached it
poll_handle(id) ==
    /\ Produced < MaxMessages
    /\ next_waiter < MaxWaiters
    /\ id < next_result_id
    /\ Enqueue([type |-> "NewWaiter",
                waiter |-> [result_id |-> id, token |-> next_waiter]])
    /\ next_waiter' = next_waiter + 1
    /\ UNCHANGED <<alg_vars, open_vars, scalar_vars, id_vars, session_vars, exec_vars, pc, panic, taken, found, next_result_id,
                   next_op_id, circuit, expected, placeholders, undelivered, injected,
                   shutdown_sent>>

\* Fabric::shutdown
shutdown ==
    /\ Produced < MaxMessages
    /\ ~shutdown_sent
    /\ Enqueue([type |-> "Shutdown"])
    /\ shutdown_sent' = TRUE
    /\ UNCHANGED <<alg_vars, open_vars, scalar_vars, id_vars, session_vars, exec_vars, pc, panic, taken, found, next_result_id,
                   next_op_id, next_waiter, circuit, expected, placeholders, undelivered,
                   injected>>

NewGateOp == \E args \in ArgLists : new_gate_op(args)

NewBatchGateOp ==
    \E args \in ArgLists, a \in 1 .. MaxArity, n \in 0 .. (MaxArity + 1) :
        /\ n \in {a - 1, a, a + 1}
        /\ new_batch_gate_op(args, a, n)

NewNetworkOp == \E args \in ArgLists : new_network_op(args)

ReceiveValue == receive_value

NetworkDeliver == \E r \in ResultIds : network_deliver(r)

NetworkInject == \E id \in ResultIds, v \in Values : network_inject(id, v)

PollHandle == \E id \in ResultIds : poll_handle(id)

\* ---------------------------------------------------------- field and group
\* The Stark curve has prime order and cofactor 1, so its group is cyclic of
\* prime order and every point is k*G for one scalar k.  A point is
\* represented by that k and a scalar by its residue, both modulo FieldOrder,
\* a small prime standing for the order of the curve.
FieldOrder == 3

Scalars == 0 .. (FieldOrder - 1)
Points == 0 .. (FieldOrder - 1)

\* StarkPoint::identity / StarkPoint::zero and StarkPoint::generator
identity == 0
generator == 1

point_add(lhs, rhs) == (lhs + rhs) % FieldOrder
point_sub(lhs, rhs) == (lhs + FieldOrder - rhs) % FieldOrder
point_neg(lhs) == (FieldOrder - lhs) % FieldOrder
point_mul(lhs, rhs) == (lhs * rhs) % FieldOrder

scalar_add(lhs, rhs) == (lhs + rhs) % FieldOrder
scalar_sub(lhs, rhs) == (lhs + FieldOrder - rhs) % FieldOrder
scalar_mul(lhs, rhs) == (lhs * rhs) % FieldOrder

\* ------------------------------------------------------------- two parties
PARTY0 == 0
Parties == {0, 1}
Peer(p) == 1 - p
Pair(a, b) == [p \in Parties |-> IF p = PARTY0 THEN a ELSE b]

\* MpcStarkPointResult +/- a public point: the first party absorbs it
mpc_add_point(share, other, party_id) ==
    IF party_id = PARTY0 THEN point_add(share, other) ELSE share

mpc_sub_point(share, other, party_id) ==
    IF party_id = PARTY0 THEN point_sub(share, other) ELSE share

\* MpcStarkPointResult::open: the shares are exchanged and added
mpc_open(share, peer_share) == point_add(share, peer_share)

\* --------------------------------------------- AuthenticatedStarkPointResult
\* One party's fields of an authenticated point.
AuthenticatedStarkPointResult(share, mac, public_modifier) ==
    [share |-> share, mac |-> mac, public_modifier |-> public_modifier]

\* an additive sharing of v between the parties, the second share being r
Sharing(v, r) == Pair(point_sub(v, r), r)

\* AuthenticatedStarkPointResult::new_shared, on both parties: the value is
\* shared, the mac is the product of the shared key and the shared value, the
\* public modifier is the identity
new_shared(value, r, mac_r, key) ==
    LET share == Sharing(value, r)
        mac == Sharing(point_mul(value, scalar_add(key[0], key[1])), mac_r)
    IN  [p \in Parties |->
            AuthenticatedStarkPointResult(share[p], mac[p], identity)]

\* Add<&StarkPoint> with the public modifier moved the wrong way
add_point_same_sign(self, other, party_id) ==
    AuthenticatedStarkPointResult(
        IF party_id = PARTY0
        THEN mpc_add_point(self.share, other, party_id)
        ELSE mpc_add_point(self.share, identity, party_id),
        self.mac,
        point_add(self.public_modifier, other))

\* impl Add<&StarkPoint> (and Add<&StarkPointResult>) for
\* &AuthenticatedStarkPointResult
add_point(self, other, party_id) ==
    AuthenticatedStarkPointResult(
        IF party_id = PARTY0
        THEN mpc_add_point(self.share, other, party_id)
        ELSE mpc_add_point(self.share, identity, party_id),
        self.mac,
        point_sub(self.public_modifier, other))

\* impl Add<&AuthenticatedStarkPointResult>
add_authenticated(self, other) ==
    AuthenticatedStarkPointResult(
        point_add(self.share, other.share),
        point_add(self.mac, other.mac),
        point_add(self.public_modifier, other.public_modifier))

\* impl Sub<&StarkPoint> (and Sub<&StarkPointResult>)
sub_point(self, other, party_id) ==
    AuthenticatedStarkPointResult(
        IF party_id = PARTY0
        THEN mpc_sub_point(self.share, other, party_id)
        ELSE mpc_sub_point(self.share, identity, party_id),
        self.mac,
        point_add(self.public_modifier, other))

\* StarkPoint - AuthenticatedStarkPointResult, the operand order generated by
\* impl_commutative!: the operator is applied to the swapped operands
point_sub_authenticated(other, self, party_id) == sub_point(self, other, party_id)

\* impl Sub<&AuthenticatedStarkPointResult>: the modifier of self is kept
sub_authenticated(self, other) ==
    AuthenticatedStarkPointResult(
        point_sub(self.share, other.share),
        point_sub(self.mac, other.mac),
        self.public_modifier)

\* impl Neg: the modifier of self is kept
neg(self) ==
    AuthenticatedStarkPointResult(
        point_neg(self.share), point_neg(self.mac), self.public_modifier)

\* impl Mul<&Scalar> (and Mul<&ScalarResult>)
mul_scalar(self, other) ==
    AuthenticatedStarkPointResult(
        point_mul(self.share, other),
        point_mul(self.mac, other),
        point_mul(self.public_modifier, other))

\* test_helpers::modify_mac, modify_share, modify_public_modifier
modify_mac(point, new_mac) == [point EXCEPT !.mac = new_mac]
modify_share(point, new_share) == [point EXCEPT !.share = new_share]
modify_public_modifier(point, new_modifier) ==
    [point EXCEPT !.public_modifier = new_modifier]

\* ------------------------------------------------------- authenticated open
\* the gate of the MAC check value: key_share * (value + modifier) - mac_share
mac_check_gate(mac_key_share, value, modifier, mac_share) ==
    point_sub(point_mul(point_add(value, modifier), mac_key_share), mac_share)

\* HashCommitment: the digest of (value, blinder); distinct pairs have distinct
\* digests
hash(value, blinder) == value * FieldOrder + blinder

Digests == 0 .. (FieldOrder * FieldOrder - 1)

\* HashCommitment::verify
verify(comm) == comm.commitment = hash(comm.value, comm.blinder)

\* the commitment check gate without the check of the peer's commitment
commitment_check_gate_no_verify(my_mac_check, peer_mac_check, peer_blinder, peer_commitment) ==
    IF point_add(my_mac_check, peer_mac_check) # identity THEN 0 ELSE 1

\* the gate of the commitment check: the flag of the authenticated open
commitment_check_gate(my_mac_check, peer_mac_check, peer_blinder, peer_commitment) ==
    LET peer_comm == [value |-> peer_mac_check, blinder |-> peer_blinder,
                      commitment |-> peer_commitment]
    IN  IF ~verify(peer_comm) THEN 0
        ELSE IF point_add(my_mac_check, peer_mac_check) # identity THEN 0
        ELSE 1

\* AuthenticatedStarkPointResult::open_authenticated run by both parties, each
\* sending what its own graph computes: the value and the flag of each party
open_authenticated(point, key, blinder) ==
    LET recovered_value == [p \in Parties |->
                               mpc_open(point[p].share, point[Peer(p)].share)]
        mac_check == [p \in Parties |->
                         mac_check_gate(key[p], recovered_value[p],
                                        point[p].public_modifier, point[p].mac)]
        my_comm == [p \in Parties |-> hash(mac_check[p], blinder[p])]
    IN  [value |-> recovered_value,
         mac_check |-> [p \in Parties |->
                           commitment_check_gate(mac_check[p], mac_check[Peer(p)],
                                                 blinder[Peer(p)], my_comm[Peer(p)])]]

\* ---------------------------------------------------- Beaver multiplication
\* One party's fields of an authenticated scalar.
AuthenticatedScalarResult(share, mac, public_modifier) ==
    [share |-> share, mac |-> mac, public_modifier |-> public_modifier]

\* a scalar shared and authenticated under the key, with a zero modifier
authenticated_scalar(value, r, mac_r, key) ==
    LET share == Sharing(value, r)
        mac == Sharing(scalar_mul(value, scalar_add(key[0], key[1])), mac_r)
    IN  [p \in Parties |-> AuthenticatedScalarResult(share[p], mac[p], 0)]

\* Fabric::next_authenticated_triple: (a, b, c) with a * b = c, as the
\* shared-value source deals them to the two parties
next_authenticated_triple(a, b, r, key) ==
    [a |-> authenticated_scalar(a, r, scalar_add(r, 1), key),
     b |-> authenticated_scalar(b, scalar_add(r, 1), r, key),
     c |-> authenticated_scalar(scalar_mul(a, b), scalar_add(r, 2), scalar_mul(r, 2), key)]

\* AuthenticatedScalarResult * point (a public point or the generator)
authenticated_scalar_mul_point(scalar, point) ==
    AuthenticatedStarkPointResult(
        point_mul(point, scalar.share),
        point_mul(point, scalar.mac),
        point_mul(point, scalar.public_modifier))

\* the share of masked_rhs = rhs - a
masked_rhs(rhs, a) == scalar_sub(rhs.share, a.share)

\* masked_lhs = self - generator * b
masked_lhs(self, b) ==
    sub_authenticated(self, authenticated_scalar_mul_point(b, generator))

\* the Beaver identity without its last term
beaver_identity_no_c(d_open, eG_open, a, b, c, party_id) ==
    add_authenticated(
        add_point(mul_scalar(authenticated_scalar_mul_point(b, generator), d_open),
                  point_mul(eG_open, d_open), party_id),
        authenticated_scalar_mul_point(a, eG_open))

\* the Beaver identity [x * yG] = deG + d[bG] + [a]eG + [c]G
beaver_identity(d_open, eG_open, a, b, c, party_id) ==
    add_authenticated(
        add_authenticated(
            add_point(mul_scalar(authenticated_scalar_mul_point(b, generator), d_open),
                      point_mul(eG_open, d_open), party_id),
            authenticated_scalar_mul_point(a, eG_open)),
        authenticated_scalar_mul_point(c, generator))

\* impl Mul<&AuthenticatedScalarResult>, on both parties.  The two masked
\* values are opened with open(): each party adds the share it receives to its
\* own, and delta is what a party adds to the share it sends.
mul_authenticated_scalar(point, rhs, triple, delta_d, delta_e) ==
    LET d_open == scalar_add(
                      scalar_add(masked_rhs(rhs[0], triple.a[0]),
                                 masked_rhs(rhs[1], triple.a[1])), delta_d)
        eG_open == point_add(
                       mpc_open(masked_lhs(point[0], triple.b[0]).share,
                                masked_lhs(point[1], triple.b[1]).share), delta_e)
    IN  [p \in Parties |->
            beaver_identity(d_open, eG_open, triple.a[p], triple.b[p],
                            triple.c[p], p)]

\* ------------------------------------------------------------ idle states
ZeroPoint ==
    [p \in Parties |-> AuthenticatedStarkPointResult(identity, identity, identity)]

NotOpened ==
    [done |-> FALSE, value |-> Pair(identity, identity), mac_check |-> Pair(0, 0)]

NotCorrupt == [kind |-> "none", party |-> PARTY0, sound |-> TRUE]

\* the algebra is not in use
AlgebraIdle ==
    /\ mac_key = Pair(0, 0)
    /\ auth_point = ZeroPoint
    /\ secret = identity
    /\ last_op = "none"
    /\ corrupt = NotCorrupt
    /\ opened = NotOpened

PeerValues == {"share", "commitment", "mac_check", "blinder"}

NothingResolved ==
    [recovered_value |-> Unresolved, mac_check |-> Unresolved,
     commitment |-> Unresolved, commitment_check |-> Unresolved]

NothingReceived == [k \in PeerValues |-> Unresolved]

NotPolled == [state |-> "unpolled", value |-> Unresolved]

\* no authenticated open is in progress
OpenIdle ==
    /\ local = [share |-> identity, mac |-> identity, public_modifier |-> identity,
                mac_key |-> 0, blinder |-> 0]
    /\ scheduled = FALSE
    /\ graph = NothingResolved
    /\ received = NothingReceived
    /\ sent = <<>>
    /\ polled = NotPolled

\* ------------------------------------------------------------- MpcScalar
\* One party's MpcScalar: the local value and the visibility flag.
MpcScalar(value, visibility) == [value |-> value, visibility |-> visibility]

\* Visibility, ordered Private < Shared < Public
VisibilityRank(visibility) ==
    CASE visibility = "Private" -> 0
      [] visibility = "Shared" -> 1
      [] visibility = "Public" -> 2

min_visibility_two(a, b) ==
    IF VisibilityRank(a.visibility) < VisibilityRank(b.visibility)
    THEN a.visibility ELSE b.visibility

is_shared(self) == self.visibility = "Shared"
is_public(self) == self.visibility = "Public"

from_public_scalar(value) == MpcScalar(value, "Public")

\* MpcNetwork::am_king: party 0 is the king
am_king(party_id) == party_id = PARTY0

scalar_neg(value) == (FieldOrder - value) % FieldOrder

\* impl Neg for &MpcScalar
mpc_scalar_neg(self) == MpcScalar(scalar_neg(self.value), self.visibility)

\* impl Add<&MpcScalar> for &MpcScalar in which every party adds a public
\* operand to its share
mpc_scalar_add_all(self, rhs, party_id) ==
    LET swap == is_public(self) /\ is_shared(rhs)
        lhs == IF swap THEN rhs ELSE self
        other == IF swap THEN self ELSE rhs
    IN  MpcScalar(scalar_add(lhs.value, other.value), min_visibility_two(lhs, other))

\* impl Add<&MpcScalar> for &MpcScalar: public + shared is evaluated as
\* shared + public; the values are added when both are public, both are
\* shared, or the party is the king, and the left value is kept otherwise
mpc_scalar_add(self, rhs, party_id) ==
    LET swap == is_public(self) /\ is_shared(rhs)
        lhs == IF swap THEN rhs ELSE self
        other == IF swap THEN self ELSE rhs
        res == IF \/ is_public(lhs) /\ is_public(other)
                  \/ is_shared(lhs) /\ is_shared(other)
                  \/ am_king(party_id)
               THEN scalar_add(lhs.value, other.value)
               ELSE lhs.value
    IN  MpcScalar(res, min_visibility_two(lhs, other))

\* impl Sub<&MpcScalar> for &MpcScalar that adds rhs without negating it
mpc_scalar_sub_no_neg(self, rhs, party_id) == mpc_scalar_add(self, rhs, party_id)

\* impl Sub<&MpcScalar> for &MpcScalar: self + rhs.neg()
mpc_scalar_sub(self, rhs, party_id) ==
    mpc_scalar_add(self, mpc_scalar_neg(rhs), party_id)

\* MpcScalar::open that exchanges the share and returns the peer's share
open_peer_share(self, received_scalar) ==
    IF is_public(self) THEN self ELSE from_public_scalar(received_scalar)

\* MpcScalar::open, received_scalar being what broadcast_single_scalar returns
open(self, received_scalar) ==
    IF is_public(self) THEN self
    ELSE from_public_scalar(scalar_add(self.value, received_scalar))

\* the number of calls of the network MpcScalar::open makes
open_sends(self) == IF is_public(self) THEN 0 ELSE 1

\* both parties open: broadcast_single_scalar hands each the other's value
open_both(x) == [p \in Parties |-> open(x[p], x[Peer(p)].value)]

\* PedersenCommitment::commit and verify_from_values
pedersen_commit(value, blinding) == hash(value, blinding)

verify_from_values(commitment, blinding, value) ==
    commitment = pedersen_commit(value, blinding)

\* MpcScalar::commit_and_open, given what the two broadcasts return
commit_and_open(self, peer_commitment, peer_blinding, peer_value) ==
    IF ~is_shared(self)
    THEN [state |-> "visibility_error", sends |-> 0]
    ELSE IF ~verify_from_values(peer_commitment, peer_blinding, peer_value)
    THEN [state |-> "authentication_error", sends |-> 2]
    ELSE [state |-> "ok", sends |-> 2,
          value |-> MpcScalar(scalar_add(self.value, peer_value), "Public")]

\* the direct branch of Mul: the local values are multiplied
mul_direct(self, rhs) ==
    MpcScalar(scalar_mul(self.value, rhs.value), min_visibility_two(self, rhs))

\* MpcScalar::next_beaver_triplet: the party's shares of a, b and c
next_beaver_triplet(triplet) ==
    [a |-> MpcScalar(triplet.a, "Shared"), b |-> MpcScalar(triplet.b, "Shared"),
     c |-> MpcScalar(triplet.c, "Shared")]

\* the Beaver branch of Mul in which every party adds the public term d * e
mul_beaver_all(lhs, rhs, triplet) ==
    LET t == [p \in Parties |-> next_beaver_triplet(triplet[p])]
        lhs_minus_a ==
            open_both([p \in Parties |-> mpc_scalar_sub(lhs[p], t[p].a, p)])
        rhs_minus_b ==
            open_both([p \in Parties |-> mpc_scalar_sub(rhs[p], t[p].b, p)])
    IN  [p \in Parties |->
            LET res == mpc_scalar_add(
                           mpc_scalar_add(mul_direct(lhs_minus_a[p], t[p].b),
                                          mul_direct(rhs_minus_b[p], t[p].a), p),
                           t[p].c, p)
            IN  mpc_scalar_add_all(res, mul_direct(lhs_minus_a[p], rhs_minus_b[p]), p)]

\* the Beaver branch of Mul<&MpcScalar> for &MpcScalar, on both parties:
\* d = open(lhs - a), e = open(rhs - b), d * [b] + e * [a] + [c], and the
\* king adds d * e
mul_beaver(lhs, rhs, triplet) ==
    LET t == [p \in Parties |-> next_beaver_triplet(triplet[p])]
        lhs_minus_a ==
            open_both([p \in Parties |-> mpc_scalar_sub(lhs[p], t[p].a, p)])
        rhs_minus_b ==
            open_both([p \in Parties |-> mpc_scalar_sub(rhs[p], t[p].b, p)])
    IN  [p \in Parties |->
            LET res == mpc_scalar_add(
                           mpc_scalar_add(mul_direct(lhs_minus_a[p], t[p].b),
                                          mul_direct(rhs_minus_b[p], t[p].a), p),
                           t[p].c, p)
            IN  IF am_king(p)
                THEN mpc_scalar_add(res, mul_direct(lhs_minus_a[p], rhs_minus_b[p]), p)
                ELSE res]

\* the branch Mul takes if one shared operand were enough for the Beaver trick
any_shared(lhs, rhs) == \A p \in Parties : is_shared(lhs[p]) \/ is_shared(rhs[p])

\* the branch Mul takes: the Beaver trick when both operands are shared
both_shared(lhs, rhs) == \A p \in Parties : is_shared(lhs[p]) /\ is_shared(rhs[p])

\* impl Mul<&MpcScalar> for &MpcScalar on both parties: the Beaver trick when
\* both operands are shared, the product of the local values otherwise
mpc_scalar_mul(lhs, rhs, triplet) ==
    IF both_shared(lhs, rhs)
    THEN mul_beaver(lhs, rhs, triplet)
    ELSE [p \in Parties |-> mul_direct(lhs[p], rhs[p])]

\* the calls of open() and of next_beaver_triplet() one Mul makes
mul_opens(lhs, rhs) == IF both_shared(lhs, rhs) THEN 2 ELSE 0
mul_triplets(lhs, rhs) == IF both_shared(lhs, rhs) THEN 1 ELSE 0

\* no MpcScalar is allocated
NoScalar == [value |-> 0, visibility |-> "Public"]

ScalarIdle ==
    /\ mpc_scalar = Pair(NoScalar, NoScalar)
    /\ opened_scalar = Pair([state |-> "none"], [state |-> "none"])
    /\ network = Pair(0, 0)
    /\ beaver_source = 0
    /\ last_scalar_op = [op |-> "none"]

\* no result id is allocated
IdIdle ==
    /\ next_id = Pair(0, 0)
    /\ point_ids = Pair(<<>>, <<>>)

\* no two-party call is under way and no local call is compared
SessionIdle ==
    /\ party = Pair([pc |-> "idle"], [pc |-> "idle"])
    /\ wire = Pair(<<>>, <<>>)
    /\ call = [fn |-> "none"]

\* ------------------------------------------------------------------- spec
FabricInit ==
    /\ job_queue = <<>>
    /\ operations = EmptyBuffer
    /\ dependencies = EmptyBuffer
    /\ results = EmptyBuffer
    /\ waiters = EmptyBuffer
    /\ outbound_queue = <<>>
    /\ pc = "running"
    /\ panic = NoPanic
    /\ result_buffer = EmptyBuffer
    /\ wakes = [w \in WaiterIds |-> 0]
    /\ evals = [o \in OpIds |-> 0]
    /\ writes = [r \in ResultIds |-> 0]
    /\ taken = "none"
    /\ found = EmptyBuffer
    /\ next_result_id = 0
    /\ next_op_id = 0
    /\ next_waiter = 0
    /\ circuit = EmptyBuffer
    /\ expected = EmptyBuffer
    /\ placeholders = EmptyBuffer
    /\ undelivered = {}
    /\ injected = 0
    /\ shutdown_sent = FALSE

Init == FabricInit /\ AlgebraIdle /\ OpenIdle /\ ScalarIdle /\ IdIdle /\ SessionIdle

Next ==
    \/ RunResult
    \/ RunOp
    \/ RunNewWaiter
    \/ RunShutdown
    \/ NewGateOp
    \/ NewBatchGateOp
    \/ NewNetworkOp
    \/ ReceiveValue
    \/ NetworkDeliver
    \/ NetworkInject
    \/ PollHandle
    \/ shutdown

Spec == Init /\ [][Next]_vars

\* The environment of a well-formed session: the peer sends exactly the
\* messages the fabric waits for, batch closures return output_arity values,
\* and shutdown() is not called.
HonestBatchGateOp ==
    \E args \in ArgLists, a \in 1 .. MaxArity : new_batch_gate_op(args, a, a)

HonestNext ==
    \/ RunResult
    \/ RunOp
    \/ RunNewWaiter
    \/ NewGateOp
    \/ HonestBatchGateOp
    \/ NewNetworkOp
    \/ ReceiveValue
    \/ NetworkDeliver
    \/ PollHandle

\* Executor::run pops the queue whenever it is running and the queue is not
\* empty.  Within Next the steps that shorten the job queue are exactly the
\* steps of ExecutorStep, and one of its four arms is enabled whenever the
\* queue is not empty, so this is the fairness of the executor's loop.
ExecutorPops ==
    /\ pc = "running"
    /\ job_queue # <<>>
    /\ job_queue' = Tail(job_queue)

\* The executor thread keeps running its loop, and the reliable channel
\* delivers every message the peer owes.
HonestSpec ==
    /\ Init
    /\ [][HonestNext]_vars
    /\ WF_job_queue(ExecutorPops)
    /\ WF_vars(NetworkDeliver)

\* A session of gates with one argument more and two messages more than in
\* Spec, and nothing but gates, peer values and one message with an arbitrary
\* id: enough for an operation that names the same result id twice next to
\* another unresolved one, while the gate that publishes that id is pending.
WideArgLists ==
    UNION {[1 .. m -> 0 .. (next_result_id - 1)] : m \in 0 .. (MaxArgs + 1)}

WideGateOp ==
    \E args \in WideArgLists :
        new_op_within(MaxMessages + 2, args, 1, "Gate",
                      [k |-> next_op_id % NumValues, n |-> 1])

WideReceiveValue == receive_value_within(MaxMessages + 2)

WideNetworkInject ==
    \E id \in ResultIds, v \in Values :
        network_inject_within(MaxMessages + 2, id, v)

WideNext ==
    \/ RunResult
    \/ RunOp
    \/ WideGateOp
    \/ WideReceiveValue
    \/ NetworkDeliver
    \/ WideNetworkInject

WideSpec == Init /\ [][WideNext]_vars

\* ------------------------------------------------- the authenticated algebra
\* Two parties hold an authenticated point each and apply the same operations
\* to it, as both run the same circuit; then they open it.
\* the MAC key alpha, the sum of the parties' shares of it
MacKey == scalar_add(mac_key[0], mac_key[1])

\* the value the parties' shares add up to
SharesSum(pt) == point_add(pt[0].share, pt[1].share)

\* the SPDZ relation mac_0 + mac_1 = alpha * (v + m), m being the public
\* modifier both parties track
MacRelation(pt) ==
    /\ pt[0].public_modifier = pt[1].public_modifier
    /\ point_add(pt[0].mac, pt[1].mac) =
          point_mul(point_add(SharesSum(pt), pt[0].public_modifier), MacKey)

\* a point is under computation: created, not opened, not tampered with
Computing == last_op # "none" /\ corrupt.kind = "none" /\ ~opened.done

Apply(new_point, new_secret, op) ==
    /\ auth_point' = new_point
    /\ secret' = new_secret
    /\ last_op' = op
    /\ UNCHANGED <<mac_key, corrupt, opened, fabric_vars, open_vars, scalar_vars, id_vars, session_vars>>

\* the other operand of a binary operation: the point itself or a fresh
\* shared value
Operands ==
    {[point |-> auth_point, secret |-> secret]}
        \cup {[point |-> new_shared(w, r, point_add(r, generator), mac_key),
                 secret |-> w] : w \in Points, r \in Points}

DoNewShared ==
    /\ last_op = "none"
    /\ \E value \in Points, r \in Points, mac_r \in Points :
          /\ auth_point' = new_shared(value, r, mac_r, mac_key)
          /\ secret' = value
    /\ last_op' = "new_shared"
    /\ UNCHANGED <<mac_key, corrupt, opened, fabric_vars, open_vars, scalar_vars, id_vars, session_vars>>

DoAddPoint ==
    /\ Computing
    /\ \E other \in Points :
          Apply([p \in Parties |-> add_point(auth_point[p], other, p)],
                point_add(secret, other), "add")

DoSubPoint ==
    /\ Computing
    /\ \E other \in Points :
          Apply([p \in Parties |-> sub_point(auth_point[p], other, p)],
                point_sub(secret, other), "sub")

DoPointSubAuthenticated ==
    /\ Computing
    /\ \E other \in Points :
          Apply([p \in Parties |-> point_sub_authenticated(other, auth_point[p], p)],
                point_sub(secret, other), "point_sub")

DoAddAuthenticated ==
    /\ Computing
    /\ \E other \in Operands :
          Apply([p \in Parties |-> add_authenticated(auth_point[p], other.point[p])],
                point_add(secret, other.secret), "add")

DoSubAuthenticated ==
    /\ Computing
    /\ \E other \in Operands :
          Apply([p \in Parties |-> sub_authenticated(auth_point[p], other.point[p])],
                point_sub(secret, other.secret), "sub")

DoNeg ==
    /\ Computing
    /\ Apply([p \in Parties |-> neg(auth_point[p])], point_neg(secret), "neg")

DoMulScalar ==
    /\ Computing
    /\ \E other \in Scalars :
          Apply([p \in Parties |-> mul_scalar(auth_point[p], other)],
                point_mul(secret, other), "mul")

\* the masked values a party may send changed: none, the scalar's, the point's
MaskedDeltas == {<<0, identity>>, <<1, identity>>, <<0, generator>>}

DoMulAuthenticated ==
    /\ Computing
    /\ \E x \in Scalars, a \in Scalars, b \in Scalars, delta \in MaskedDeltas :
          /\ auth_point' = mul_authenticated_scalar(
                               auth_point,
                               authenticated_scalar(x, b, a, mac_key),
                               next_authenticated_triple(a, b, x, mac_key),
                               delta[1], delta[2])
          /\ secret' = point_mul(secret, x)
          /\ corrupt' = IF delta = <<0, identity>> THEN corrupt
                        ELSE [kind |-> "masked", party |-> 1, sound |-> TRUE]
    /\ last_op' = "mul_authenticated"
    /\ UNCHANGED <<mac_key, opened, fabric_vars, open_vars, scalar_vars, id_vars, session_vars>>

\* one party replaces one field of its authenticated point
Modify(p, new_point, kind) ==
    /\ new_point # auth_point[p]
    /\ auth_point' = [auth_point EXCEPT ![p] = new_point]
    /\ corrupt' = [kind |-> kind, party |-> p, sound |-> MacRelation(auth_point)]
    /\ UNCHANGED <<mac_key, secret, last_op, opened, fabric_vars, open_vars, scalar_vars, id_vars, session_vars>>

DoModifyMac ==
    /\ Computing
    /\ \E p \in Parties, new_mac \in Points :
          Modify(p, modify_mac(auth_point[p], new_mac), "mac")

DoModifyShare ==
    /\ Computing
    /\ \E p \in Parties, new_share \in Points :
          Modify(p, modify_share(auth_point[p], new_share), "share")

DoModifyPublicModifier ==
    /\ Computing
    /\ \E p \in Parties, new_modifier \in Points :
          Modify(p, modify_public_modifier(auth_point[p], new_modifier),
                 "public_modifier")

DoOpenAuthenticated ==
    /\ last_op # "none"
    /\ ~opened.done
    /\ \E b \in Scalars :
          LET blinder == Pair(b, scalar_add(b, 1))
              o == open_authenticated(auth_point, mac_key, blinder)
          IN  opened' = [done |-> TRUE, value |-> o.value, mac_check |-> o.mac_check]
    /\ UNCHANGED <<mac_key, auth_point, secret, last_op, corrupt, fabric_vars,
                   open_vars, scalar_vars, id_vars, session_vars>>

AlgebraInit ==
    /\ FabricInit
    /\ OpenIdle
    /\ ScalarIdle
    /\ IdIdle
    /\ SessionIdle
    /\ mac_key \in [Parties -> Scalars]
    /\ auth_point = ZeroPoint
    /\ secret = identity
    /\ last_op = "none"
    /\ corrupt = NotCorrupt
    /\ opened = NotOpened

AlgebraNext ==
    \/ DoNewShared
    \/ DoAddPoint
    \/ DoSubPoint
    \/ DoPointSubAuthenticated
    \/ DoAddAuthenticated
    \/ DoSubAuthenticated
    \/ DoNeg
    \/ DoMulScalar
    \/ DoMulAuthenticated
    \/ DoModifyMac
    \/ DoModifyShare
    \/ DoModifyPublicModifier
    \/ DoOpenAuthenticated

AlgebraSpec == AlgebraInit /\ [][AlgebraNext]_vars

\* ----------------------------------- the dataflow graph of open_authenticated
\* One party runs open_authenticated on its authenticated point.  The gates
\* of the graph are evaluated by the executor as soon as their arguments are
\* resolved; the values that come from the peer are whatever the peer sends,
\* whenever it sends them.
\* a gate whose arguments are not all resolved has no result yet
Resolved(args) == \A i \in 1 .. Len(args) : args[i] # Unresolved

\* the graph with a MAC check gate that also waits for the peer's MAC check
\* value
open_authenticated_graph_waiting(self, recv) ==
    LET recovered_value ==
            IF Resolved(<<recv["share"]>>)
            THEN mpc_open(self.share, recv["share"]) ELSE Unresolved
        mac_check ==
            IF Resolved(<<recovered_value, recv["mac_check"]>>)
            THEN mac_check_gate(self.mac_key, recovered_value,
                                self.public_modifier, self.mac)
            ELSE Unresolved
        commitment ==
            IF Resolved(<<mac_check>>) THEN hash(mac_check, self.blinder)
            ELSE Unresolved
        commitment_check ==
            IF Resolved(<<mac_check, recv["mac_check"], recv["blinder"],
                          recv["commitment"]>>)
            THEN commitment_check_gate(mac_check, recv["mac_check"],
                                       recv["blinder"], recv["commitment"])
            ELSE Unresolved
    IN  [recovered_value |-> recovered_value, mac_check |-> mac_check,
         commitment |-> commitment, commitment_check |-> commitment_check]

\* The results of the gates of open_authenticated, given what has arrived from
\* the peer: each gate is evaluated once all of its arguments are resolved.
open_authenticated_graph(self, recv) ==
    LET recovered_value ==
            IF Resolved(<<recv["share"]>>)
            THEN mpc_open(self.share, recv["share"]) ELSE Unresolved
        mac_check ==
            IF Resolved(<<recovered_value>>)
            THEN mac_check_gate(self.mac_key, recovered_value,
                                self.public_modifier, self.mac)
            ELSE Unresolved
        commitment ==
            IF Resolved(<<mac_check>>) THEN hash(mac_check, self.blinder)
            ELSE Unresolved
        commitment_check ==
            IF Resolved(<<mac_check, recv["mac_check"], recv["blinder"],
                          recv["commitment"]>>)
            THEN commitment_check_gate(mac_check, recv["mac_check"],
                                       recv["blinder"], recv["commitment"])
            ELSE Unresolved
    IN  [recovered_value |-> recovered_value, mac_check |-> mac_check,
         commitment |-> commitment, commitment_check |-> commitment_check]

\* The values the Network operations of the graph have to send: exchange_value
\* sends the value behind its argument once that argument is resolved.  The
\* share and the blinder are allocated values, resolved from the start.
Sendable(self, g) ==
    {[kind |-> "share", payload |-> self.share],
     [kind |-> "blinder", payload |-> self.blinder]}
        \cup (IF g.commitment # Unresolved
              THEN {[kind |-> "commitment", payload |-> g.commitment]} ELSE {})
        \cup (IF g.mac_check # Unresolved
              THEN {[kind |-> "mac_check", payload |-> g.mac_check]} ELSE {})

\* the sequences that enumerate the set S without repetition
Enumerations(S) ==
    {q \in [1 .. Cardinality(S) -> S] : \A m \in S : \E i \in DOMAIN q : q[i] = m}

\* the executor runs every gate that is ready and puts the payload of every
\* Network operation that ran on the outbound queue
RunGraph(recv) ==
    LET g == open_authenticated_graph(local, recv)
        new == Sendable(local, g) \ Range(sent)
    IN  /\ graph' = g
        /\ \E q \in Enumerations(new) : sent' = sent \o q

\* the party calls open_authenticated: the graph is scheduled
DoSchedule ==
    /\ ~scheduled
    /\ scheduled' = TRUE
    /\ RunGraph(received)
    /\ UNCHANGED <<local, received, polled, fabric_vars, alg_vars, scalar_vars, id_vars, session_vars>>

\* a value of the peer arrives
PeerSends(kind, value) ==
    /\ received[kind] = Unresolved
    /\ received' = [received EXCEPT ![kind] = value]
    /\ IF scheduled
       THEN RunGraph(received')
       ELSE UNCHANGED <<graph, sent>>
    /\ UNCHANGED <<local, scheduled, polled, fabric_vars, alg_vars, scalar_vars, id_vars, session_vars>>

PeerSendsShare == \E value \in Points : PeerSends("share", value)

PeerSendsCommitment == \E value \in Digests : PeerSends("commitment", value)

PeerSendsMacCheck == \E value \in Points : PeerSends("mac_check", value)

PeerSendsBlinder == \E value \in Scalars : PeerSends("blinder", value)

\* Future::poll that returns the value as soon as it is there
poll_value_only(value, mac_check) ==
    IF value = Unresolved THEN [state |-> "pending", value |-> Unresolved]
    ELSE [state |-> "ok", value |-> value]

\* impl Future for AuthenticatedStarkPointOpenResult: poll, given what the two
\* handles resolve to
poll(value, mac_check) ==
    IF value = Unresolved THEN [state |-> "pending", value |-> Unresolved]
    ELSE IF mac_check = Unresolved THEN [state |-> "pending", value |-> Unresolved]
    ELSE IF mac_check = 1 THEN [state |-> "ok", value |-> value]
    ELSE [state |-> "error", value |-> Unresolved]

\* the caller polls the future until it is ready
DoPoll ==
    /\ scheduled
    /\ polled.state \in {"unpolled", "pending"}
    /\ polled' = poll(graph.recovered_value, graph.commitment_check)
    /\ UNCHANGED <<local, scheduled, graph, received, sent, fabric_vars, alg_vars, scalar_vars, id_vars, session_vars>>

OpenInit ==
    /\ FabricInit
    /\ AlgebraIdle
    /\ ScalarIdle
    /\ IdIdle
    /\ SessionIdle
    /\ local \in [share : {generator}, mac : Points, public_modifier : {identity},
                  mac_key : Scalars, blinder : {1}]
    /\ scheduled = FALSE
    /\ graph = NothingResolved
    /\ received = NothingReceived
    /\ sent = <<>>
    /\ polled = NotPolled

OpenNext ==
    \/ DoSchedule
    \/ PeerSendsShare
    \/ PeerSendsCommitment
    \/ PeerSendsMacCheck
    \/ PeerSendsBlinder
    \/ DoPoll

OpenSpec == OpenInit /\ [][OpenNext]_vars

\* ----------------------------------------------------------------- claims
\* the executor takes a message: the only steps that shorten the job queue
Takes(type) ==
    /\ pc = "running"
    /\ job_queue # <<>>
    /\ Head(job_queue).type = type
    /\ job_queue' = Tail(job_queue)

\* waiters registered in the index, under any id
Indexed == UNION {Range(waiters[id]) : id \in DOMAIN waiters}

\* C1: each result id is written into the results buffer at most once and its
\* value never changes while the executor runs; a second result for a
\* populated id, from a Result message or from a gate output, ends the run with
\* the duplicate-id assertion, after which the executor does nothing more.
C1_WriteOnce ==
    /\ [](\A r \in ResultIds :
            /\ writes[r] <= 2
            /\ (writes[r] >= 1 <=> BufHas(results, r))
            /\ (writes[r] = 2 <=> (pc = "panicked" /\ panic = "duplicate result id"
                                    /\ \A q \in ResultIds \ {r} : writes[q] <= 1)))
    /\ [][\A r \in DOMAIN results :
            pc' # "panicked" => (BufHas(results', r) /\ results'[r] = results[r])]_vars
    /\ [][(Takes("Result") /\ BufHas(results, Head(job_queue).result.id))
            => pc' = "panicked"]_vars
    /\ [][pc = "panicked" => (pc' = "panicked" /\ UNCHANGED exec_vars)]_vars

\* C1 witness: a gate was evaluated and its output hit an id already populated
C1_Witness ==
    /\ panic = "duplicate result id"
    /\ taken # "Result"
    /\ \E o \in DOMAIN circuit : evals[o] = 1 /\ writes[circuit[o].result_id] = 2

\* C2: compute_result never looks up an argument that has no value: a gate is
\* evaluated only when every id in its args is in the results buffer.
C2_CausalOrder ==
    /\ panic # "compute_result: argument absent"
    /\ \A r \in DOMAIN dependencies : \A o \in Range(dependencies[r]) :
          evals[o] >= 1 => BufHas(results, r)

\* C2 witness: an operation that waited on two outputs of one batch gate was
\* evaluated
C2_Witness ==
    \E b \in DOMAIN circuit, o \in OpIds :
        /\ circuit[b].op_type = "GateBatch"
        /\ circuit[b].output_arity >= 2
        /\ circuit[b].n = circuit[b].output_arity
        /\ evals[b] = 1
        /\ injected = 0
        /\ evals[o] = 1
        /\ BufHas(dependencies, circuit[b].result_id)
        /\ BufHas(dependencies, circuit[b].result_id + 1)
        /\ o \in Range(dependencies[circuit[b].result_id])
        /\ o \in Range(dependencies[circuit[b].result_id + 1])

\* C3: when a result is inserted, every waiter registered under its id is woken
\* with that value in the same step, whether the result comes from a gate or
\* from a Result message.
C3_WakeOnInsert ==
    [][\A id \in ResultIds :
          (~BufHas(results, id) /\ BufHas(results', id) /\ pc' = "running"
             /\ BufHas(waiters, id))
          => \A w \in Range(waiters[id]) :
                /\ wakes'[w] = wakes[w] + 1
                /\ BufHas(result_buffer', w)
                /\ result_buffer'[w] = results'[id]]_vars

\* Companion of the previous formula, for results of local gates only: a
\* waiter registered under the id of a gate
\* output is woken in the step that evaluates the gate
C3_WakeOnGateOutput ==
    [][\A id \in ResultIds :
          (~BufHas(results, id) /\ BufHas(results', id) /\ pc' = "running"
             /\ BufHas(waiters, id)
             /\ ~(Takes("Result") /\ Head(job_queue).result.id = id))
          => \A w \in Range(waiters[id]) :
                /\ wakes'[w] = wakes[w] + 1
                /\ result_buffer'[w] = results'[id]]_vars

\* C4: no waiter is woken more than once, and a woken waiter is no longer in
\* the index.
C4_WokenOnce ==
    \A w \in WaiterIds :
        /\ wakes[w] <= 1
        /\ (wakes[w] = 1 => (w \notin Indexed /\ BufHas(result_buffer, w)))

\* C4 witness: two waiters of the same id were woken one after the other
C4_Witness ==
    /\ BufHas(found, 0) /\ BufHas(found, 1)
    /\ found[0].result_id = found[1].result_id
    /\ wakes[0] = 1 /\ wakes[1] = 1

\* C5: a NewWaiter for an id whose result is stored is woken in that step with
\* the stored value; for an id without result it is indexed and not woken.
C5_NewWaiter ==
    [][Takes("NewWaiter") =>
          LET w == Head(job_queue).waiter IN
          IF BufHas(results, w.result_id)
          THEN /\ wakes'[w.token] = wakes[w.token] + 1
               /\ BufHas(result_buffer', w.token)
               /\ result_buffer'[w.token] = results[w.result_id]
               /\ ~BufHas(waiters', w.result_id)
          ELSE /\ BufHas(waiters', w.result_id)
               /\ w.token \in Range(waiters'[w.result_id])
               /\ wakes' = wakes
               /\ result_buffer' = result_buffer]_vars

\* C5 witness: one waiter found its result and was woken, another did not and
\* is in the index
C5_Witness ==
    \E w, x \in DOMAIN found :
        /\ found[w].ready /\ wakes[w] = 1
        /\ ~found[x].ready /\ wakes[x] = 0 /\ x \in Indexed

\* C6: in a well-formed session (acyclic circuit, every placeholder's message
\* delivered, closures of the right arity) with a fair executor, every
\* scheduled operation is evaluated, exactly once, every allocated result id
\* is populated, and no operation stays in the in-flight buffer.
C6_NoDeadlock ==
    /\ \A o \in OpIds : (o < next_op_id) ~> (evals[o] = 1)
    /\ \A o \in OpIds : [](evals[o] <= 1)
    /\ \A r \in ResultIds : (r < next_result_id) ~> BufHas(results, r)
    /\ \A o \in OpIds : BufHas(operations, o) ~> ~BufHas(operations, o)
    /\ [](pc = "running")

\* C6 witness: a chain of two operations behind a peer value ran to the end
C6_Witness ==
    /\ next_op_id >= 2
    /\ \A o \in 0 .. (next_op_id - 1) : evals[o] = 1
    /\ operations = EmptyBuffer
    /\ job_queue = <<>>
    /\ \E r \in DOMAIN placeholders :
          BufHas(dependencies, r) /\ dependencies[r] # <<>>
    /\ \E o \in DOMAIN circuit :
          BufHas(dependencies, circuit[o].result_id)
             /\ dependencies[circuit[o].result_id] # <<>>

\* nothing is left to do: no message queued, none owed by the peer
Quiescent == job_queue = <<>> /\ undelivered = {}

\* C7: peer values are matched by id.  Whatever the interleaving, a stored
\* value is the one the circuit defines for its id, a placeholder is populated
\* only by its own message, a dependent of r is evaluated only once r is
\* populated, and once nothing is left to do the results buffer is the
\* function of the circuit alone.
C7_MatchById ==
    /\ \A r \in DOMAIN results : results[r] = expected[r]
    /\ \A r \in DOMAIN placeholders :
          BufHas(results, r) =>
             /\ r \notin undelivered
             /\ \A i \in 1 .. Len(job_queue) :
                   job_queue[i].type = "Result" => job_queue[i].result.id # r
    /\ \A r \in DOMAIN dependencies : \A o \in Range(dependencies[r]) :
          evals[o] >= 1 => BufHas(results, r)
    /\ Quiescent => results = expected

\* C7 witness: two peer values arrived and an operation that waited for one of
\* them was evaluated
C7_Witness ==
    /\ Quiescent
    /\ Cardinality(DOMAIN placeholders) >= 2
    /\ \E r \in DOMAIN placeholders, o \in OpIds :
          /\ BufHas(dependencies, r)
          /\ o \in Range(dependencies[r])
          /\ evals[o] = 1

\* number of messages on the outbound queue tagged with result id r
Outbound(r) ==
    Cardinality({i \in 1 .. Len(outbound_queue) : outbound_queue[i].result_id = r})

\* C8: a Network operation, once evaluated, has put exactly one message on the
\* outbound queue, tagged with its result id, and the payload of that message
\* is the local result under that id; Gate and GateBatch operations put
\* nothing on the outbound queue.
C8_NetworkSend ==
    /\ \A o \in DOMAIN circuit :
          Outbound(circuit[o].result_id) =
             IF circuit[o].op_type = "Network" THEN evals[o] ELSE 0
    /\ \A o \in OpIds : evals[o] <= 1
    /\ \A i \in 1 .. Len(outbound_queue) :
          /\ \E o \in DOMAIN circuit :
                /\ circuit[o].op_type = "Network"
                /\ circuit[o].result_id = outbound_queue[i].result_id
          /\ pc # "panicked" =>
                /\ BufHas(results, outbound_queue[i].result_id)
                /\ results[outbound_queue[i].result_id] = outbound_queue[i].payload

\* C8 witness: a Network operation and a Gate were both evaluated
C8_Witness ==
    /\ pc = "running"
    /\ Len(outbound_queue) = 1
    /\ \E o \in DOMAIN circuit : circuit[o].op_type = "Gate" /\ evals[o] = 1

\* C9: a GateBatch whose closure returns a number of values different from the
\* number of its result ids aborts the executor when it is evaluated.
C9_BatchArity ==
    \A o \in DOMAIN circuit :
        (circuit[o].op_type = "GateBatch" /\ circuit[o].n # circuit[o].output_arity
            /\ evals[o] >= 1)
        => pc = "panicked"

\* C10: once the executor has taken Shutdown it does nothing more: the job
\* queue only grows behind its head, and the results, the in-flight
\* operations, the waiter index and the waiters' buffers stay as they were;
\* taking Shutdown itself changes none of them.
C10_Shutdown ==
    /\ [][Takes("Shutdown") => (pc' = "shutdown" /\ UNCHANGED exec_vars)]_vars
    /\ [][pc = "shutdown" =>
            /\ pc' = "shutdown"
            /\ UNCHANGED exec_vars
            /\ Len(job_queue') >= Len(job_queue)
            /\ SubSeq(job_queue', 1, Len(job_queue)) = job_queue]_vars

\* C10 witness: the executor stopped with a waiter registered and the message
\* carrying its result queued behind Shutdown
C10_Witness ==
    /\ pc = "shutdown"
    /\ \E id \in DOMAIN waiters :
          /\ waiters[id] # <<>>
          /\ \E i \in 1 .. Len(job_queue) :
                job_queue[i].type = "Result" /\ job_queue[i].result.id = id

\* C11: the executor handles the job queue one message at a time, in the order
\* of enqueueing.  The only step that removes a message removes the head, while
\* the executor runs; every other step appends one message at the back and
\* touches none of the executor's buffers.  The message taken is handled to the
\* end within its step: a taken operation is evaluated or stored, and between
\* two messages no operation in the in-flight buffer has all its arguments
\* resolved, so nothing unblocked is left for a later message.
C11_Fifo ==
    /\ [][job_queue' # job_queue =>
            \/ /\ pc = "running"
               /\ job_queue # <<>>
               /\ job_queue' = Tail(job_queue)
               /\ taken' = Head(job_queue).type
            \/ /\ Len(job_queue') = Len(job_queue) + 1
               /\ SubSeq(job_queue', 1, Len(job_queue)) = job_queue
               /\ UNCHANGED <<exec_vars, pc, panic>>]_vars
    /\ [][job_queue' = job_queue => UNCHANGED <<exec_vars, pc, panic>>]_vars
    /\ [][(Takes("Op") /\ pc' = "running") =>
            LET op == Head(job_queue).op IN
            \/ evals'[op.id] = evals[op.id] + 1
            \/ BufHas(operations', op.id)]_vars
    /\ [](pc = "running" =>
            \A o \in DOMAIN operations :
                /\ operations[o].inflight_args >= 1
                /\ \E i \in 1 .. Len(operations[o].args) :
                      ~BufHas(results, operations[o].args[i]))

\* C11 witness: a Result message was taken and the operation waiting for it was
\* evaluated in that step, while a message enqueued later still waits
C11_Witness ==
    /\ pc = "running"
    /\ taken = "Result"
    /\ job_queue # <<>>
    /\ \E r \in DOMAIN placeholders, o \in OpIds :
          /\ BufHas(results, r)
          /\ BufHas(dependencies, r)
          /\ o \in Range(dependencies[r])
          /\ evals[o] = 1

\* both parties' flag of the authenticated open is 1 and both recover v
OpensTo(v) ==
    \A p \in Parties : opened.mac_check[p] = 1 /\ opened.value[p] = v

\* C12: an authenticated point obtained from new_shared values by any sequence
\* of the algebra operations (additions and subtractions of public and
\* authenticated points, negation, multiplication by public scalars), no share
\* being changed outside the protocol, opens with flag 1 on both parties to the
\* secret the computation defines.
C12_HonestOpen ==
    (opened.done /\ corrupt.kind = "none") => OpensTo(secret)

\* C13: new_shared yields a point with the identity as modifier whose macs add
\* up to alpha * (v + m), and the relation is kept by adding a public point c
\* (the first party adds c to its share, macs unchanged, modifier m - c), by
\* subtracting a public point c (modifier m + c), by adding two authenticated
\* points (shares, macs and modifiers added) and by multiplying by a public
\* scalar (shares, macs and modifiers multiplied).
C13_MacRelation ==
    /\ [][(last_op' = "new_shared" /\ DoNewShared) =>
            /\ MacRelation(auth_point')
            /\ SharesSum(auth_point') = secret'
            /\ \A p \in Parties : auth_point'[p].public_modifier = identity]_vars
    /\ [][(last_op' = "add" /\ MacRelation(auth_point) /\ DoAddPoint) =>
            /\ MacRelation(auth_point')
            /\ \E c \in Points :
                  /\ auth_point'[0].share = point_add(auth_point[0].share, c)
                  /\ auth_point'[1].share = auth_point[1].share
                  /\ \A p \in Parties :
                        /\ auth_point'[p].mac = auth_point[p].mac
                        /\ auth_point'[p].public_modifier =
                              point_sub(auth_point[p].public_modifier, c)]_vars
    /\ [][(last_op' = "sub" /\ MacRelation(auth_point) /\ DoSubPoint) =>
            /\ MacRelation(auth_point')
            /\ \E c \in Points :
                  /\ auth_point'[0].share = point_sub(auth_point[0].share, c)
                  /\ auth_point'[1].share = auth_point[1].share
                  /\ \A p \in Parties :
                        /\ auth_point'[p].mac = auth_point[p].mac
                        /\ auth_point'[p].public_modifier =
                              point_add(auth_point[p].public_modifier, c)]_vars
    /\ [][(last_op' = "add" /\ MacRelation(auth_point) /\ DoAddAuthenticated) =>
            /\ MacRelation(auth_point')
            /\ \E other \in Operands :
                  /\ MacRelation(other.point)
                  /\ \A p \in Parties :
                        /\ auth_point'[p].share =
                              point_add(auth_point[p].share, other.point[p].share)
                        /\ auth_point'[p].mac =
                              point_add(auth_point[p].mac, other.point[p].mac)
                        /\ auth_point'[p].public_modifier =
                              point_add(auth_point[p].public_modifier,
                                        other.point[p].public_modifier)]_vars
    /\ [][(last_op' = "mul" /\ MacRelation(auth_point) /\ DoMulScalar) =>
            /\ MacRelation(auth_point')
            /\ \E k \in Scalars : \A p \in Parties :
                  /\ auth_point'[p].share = point_mul(auth_point[p].share, k)
                  /\ auth_point'[p].mac = point_mul(auth_point[p].mac, k)
                  /\ auth_point'[p].public_modifier =
                        point_mul(auth_point[p].public_modifier, k)]_vars

\* C13 witness: under a non-zero key, a point with a non-identity modifier and
\* non-identity macs came out of an addition with the relation intact
C13_Witness ==
    /\ last_op = "add"
    /\ corrupt.kind = "none"
    /\ MacKey # 0
    /\ secret # identity
    /\ auth_point[0].public_modifier # identity
    /\ point_add(auth_point[0].mac, auth_point[1].mac) # identity
    /\ MacRelation(auth_point)

\* C14: the negation of an honestly produced authenticated point, whatever its
\* public modifier, opens with flag 1 to the negation of its secret.
C14_NegOpen ==
    (opened.done /\ corrupt.kind = "none" /\ last_op = "neg"
        /\ MacRelation([p \in Parties |-> neg(auth_point[p])]))
    => OpensTo(secret)

\* the kind of message i of the outbound queue
SentKinds == {sent[i].kind : i \in 1 .. Len(sent)}

\* C15: the party puts its MAC check value, and its blinder, on the outbound
\* queue only once the peer's commitment has arrived.
C15_CommitThenOpen ==
    (SentKinds \cap {"mac_check", "blinder"} # {})
    => received["commitment"] # Unresolved

\* C16: the flag of the authenticated open is 0 or 1 once it is resolved, and
\* it is 1 exactly when the peer's MAC check value and blinder hash to the
\* commitment the peer sent and the two MAC check values add up to the
\* identity; it is resolved once the local MAC check value and the peer's
\* three values are.
C16_CheckFlag ==
    /\ graph.commitment_check \in {Unresolved, 0, 1}
    /\ graph.commitment_check # Unresolved =>
          /\ graph.mac_check # Unresolved
          /\ \A k \in {"commitment", "mac_check", "blinder"} :
                received[k] # Unresolved
          /\ graph.commitment_check = 1 <=>
                /\ received["commitment"] =
                      hash(received["mac_check"], received["blinder"])
                /\ point_add(graph.mac_check, received["mac_check"]) = identity
    /\ (scheduled /\ \A k \in PeerValues : received[k] # Unresolved)
          => graph.commitment_check # Unresolved

\* C16 witness: the flag is 1 with MAC check values other than the identity
C16_Witness ==
    /\ graph.commitment_check = 1
    /\ graph.mac_check # identity
    /\ received["mac_check"] # identity

\* C17: a poll of the future of the authenticated open returns pending while
\* the value or the flag is unresolved, the value if the flag is 1, and an
\* authentication error without the value otherwise.
C17_Poll ==
    /\ [][DoPoll =>
            LET value == graph.recovered_value
                mac_check == graph.commitment_check
            IN  /\ polled'.state = "pending" <=>
                      (value = Unresolved \/ mac_check = Unresolved)
                /\ polled'.state = "ok" <=>
                      (value # Unresolved /\ mac_check = 1)
                /\ polled'.state = "error" <=>
                      (value # Unresolved /\ mac_check # Unresolved /\ mac_check # 1)
                /\ polled'.value = IF polled'.state = "ok" THEN value
                                   ELSE Unresolved]_vars
    /\ [](polled.state = "ok" =>
            (graph.commitment_check = 1 /\ polled.value = graph.recovered_value))
    /\ [](polled.state = "error" =>
            (graph.commitment_check = 0 /\ polled.value = Unresolved))

\* C17 witness: the value was recovered, the check failed, and the poll
\* returned the authentication error
C17_Witness ==
    /\ polled.state = "error"
    /\ graph.recovered_value # Unresolved
    /\ graph.commitment_check = 0

\* the key that multiplies what the party changed: nothing for a mac share,
\* the whole key for a secret share, the party's own key share for its copy
\* of the public modifier
RelevantKeyNonZero ==
    CASE corrupt.kind = "mac" -> TRUE
      [] corrupt.kind = "share" -> MacKey # 0
      [] corrupt.kind = "public_modifier" -> mac_key[corrupt.party] # 0
      [] OTHER -> FALSE

\* C18: when one party replaces its mac share, its secret share or its copy of
\* the public modifier of an honestly produced point by another value, and the
\* relevant key is not zero, the other party's authenticated open fails.
C18_TamperDetected ==
    (opened.done /\ RelevantKeyNonZero)
    => opened.mac_check[Peer(corrupt.party)] = 0

\* Companion of the previous formula: the same for a point whose macs
\* satisfied the MAC relation when the party changed its field
C18_TamperDetectedOnSound ==
    (opened.done /\ RelevantKeyNonZero /\ corrupt.sound)
    => \A p \in Parties : opened.mac_check[p] = 0

\* a step of DoMulAuthenticated in which no masked value is changed: the only
\* step from a point under computation that leaves last_op at
\* "mul_authenticated" with nothing corrupted and nothing opened
MulAuthenticatedStep ==
    /\ Computing
    /\ last_op' = "mul_authenticated"
    /\ corrupt'.kind = "none"
    /\ ~opened'.done

\* C19: the product of an authenticated scalar x and an authenticated point P
\* by the Beaver identity, given a triple with a * b = c, is an authenticated
\* point whose shares add up to x * P and whose macs satisfy the MAC relation;
\* its authenticated open yields x * P with flag 1.
C19_BeaverMul ==
    /\ [][MulAuthenticatedStep =>
            /\ MacRelation(auth_point')
            /\ SharesSum(auth_point') = secret'
            /\ \E x \in Scalars :
                  /\ secret' = point_mul(secret, x)
                  /\ SharesSum(auth_point') = point_mul(SharesSum(auth_point), x)]_vars
    /\ []((opened.done /\ corrupt.kind = "none" /\ last_op = "mul_authenticated")
            => OpensTo(secret))

\* C19 witness: a product other than the identity was opened under a non-zero
\* key with flag 1
C19_Witness ==
    /\ opened.done
    /\ corrupt.kind = "none"
    /\ last_op = "mul_authenticated"
    /\ MacKey # 0
    /\ secret # identity
    /\ auth_point[0].public_modifier # identity
    /\ OpensTo(secret)

\* C20: a masked value of the Beaver multiplication sent changed by a party is
\* detected: when the MAC key is not zero and the product is not the secret,
\* the other party's authenticated open of the product fails.
C20_MaskedDetected ==
    (opened.done /\ corrupt.kind = "masked" /\ MacKey # 0
        /\ opened.value[Peer(corrupt.party)] # secret)
    => opened.mac_check[Peer(corrupt.party)] = 0

\* the positions of the args of a stored operation whose id has no result
UnresolvedArgs(o) ==
    {i \in 1 .. Len(operations[o].args) : ~BufHas(results, operations[o].args[i])}

\* the operations the step stores in the in-flight buffer
StoredByStep == (DOMAIN operations') \ (DOMAIN operations)

\* the number of times op id o occurs in the dependent list of result id r
Occurrences(deps, r, o) ==
    IF BufHas(deps, r)
    THEN Cardinality({i \in 1 .. Len(deps[r]) : deps[r][i] = o})
    ELSE 0

\* C29: a step that stores an operation appends its id to the dependent list
\* of each of its args that has no result, once per position, and to the list
\* of no id that has a result.
C29_DependentsOfUnresolved ==
    [][\A o \in StoredByStep : \A r \in ResultIds :
          Occurrences(dependencies', r, o) - Occurrences(dependencies, r, o) =
              IF BufHas(results, r) THEN 0
              ELSE Cardinality({i \in 1 .. Len(operations'[o].args) :
                                    operations'[o].args[i] = r})]_vars

\* Companion of the previous formula: the same for the args without a result
\* only, whatever is appended under the args that have one
C29_DependentsOfUnresolvedArgs ==
    [][\A o \in StoredByStep : \A r \in ResultIds :
          ~BufHas(results, r) =>
              Occurrences(dependencies', r, o) - Occurrences(dependencies, r, o) =
                  Cardinality({i \in 1 .. Len(operations'[o].args) :
                                    operations'[o].args[i] = r})]_vars

\* C30: while the executor runs, every stored operation has inflight_args
\* equal to the number of positions of its args without a result, which is at
\* least 1 (an operation whose counter reached zero was evaluated in the step
\* and is stored no more), and no decrement of a zero counter has happened.
C30_InflightArgs ==
    /\ pc = "running" =>
          \A o \in DOMAIN operations :
              /\ operations[o].inflight_args = Cardinality(UnresolvedArgs(o))
              /\ operations[o].inflight_args >= 1
    /\ panic # "inflight_args underflow"
    /\ \A o \in DOMAIN operations : operations[o].inflight_args # UsizeMax

\* Companion of the previous formula: the counters of the stored operations
\* while the executor runs, without the claim about the decrement
C30_InflightArgsWhileRunning ==
    pc = "running" =>
        \A o \in DOMAIN operations :
            /\ operations[o].inflight_args = Cardinality(UnresolvedArgs(o))
            /\ operations[o].inflight_args >= 1

\* ============================================================ MpcScalar
\* Two parties run the same program on one MpcScalar, each holding its local
\* value: at most one arithmetic operation with a second operand, then at
\* most one opening of the result.

Orders == {"self_first", "self_second"}

\* what the two parties hold for one value: a public value is the same on
\* both, a shared or private one is any pair of local values
ScalarPairs(visibility) ==
    IF visibility = "Public"
    THEN {Pair(MpcScalar(v, visibility), MpcScalar(v, visibility)) : v \in Scalars}
    ELSE {Pair(MpcScalar(v0, visibility), MpcScalar(v1, visibility)) : v0, v1 \in Scalars}

\* the second operand of a binary operation: a public or a shared value
ScalarOperands == ScalarPairs("Public") \cup ScalarPairs("Shared")

\* SharedValueSource::next_triplet: additive shares of a, b, c with a * b = c
BeaverTriplets ==
    {Pair([a |-> a0, b |-> b0, c |-> 1],
          [a |-> 1, b |-> 1,
           c |-> scalar_sub(scalar_mul(scalar_add(a0, 1), scalar_add(b0, 1)), 1)]) :
        a0, b0 \in Scalars}

\* the triplets a multiplication may take: none unless both operands are shared
TripletsFor(lhs, rhs) ==
    IF both_shared(lhs, rhs)
    THEN BeaverTriplets
    ELSE {Pair([a |-> 0, b |-> 0, c |-> 0], [a |-> 0, b |-> 0, c |-> 0])}

\* the value two parties' shares add up to
SharedValue(x) == scalar_add(x[0].value, x[1].value)

ScalarInit ==
    /\ FabricInit /\ AlgebraIdle /\ OpenIdle /\ IdIdle /\ SessionIdle
    /\ mpc_scalar \in ScalarPairs("Public") \cup ScalarPairs("Shared")
                          \cup ScalarPairs("Private")
    /\ opened_scalar = Pair([state |-> "none"], [state |-> "none"])
    /\ network = Pair(0, 0)
    /\ beaver_source = 0
    /\ last_scalar_op = [op |-> "none"]

\* impl_arithmetic_wrapped!(MpcScalar, Add, add, +, from_public_scalar, Scalar):
\* a + s, and s + a with the Scalar wrapped on the left
add_scalar(self, rhs, party_id) ==
    mpc_scalar_add(self, from_public_scalar(rhs), party_id)

scalar_add_mpc(lhs, rhs, party_id) ==
    mpc_scalar_add(from_public_scalar(lhs), rhs, party_id)

Lhs(order, operand) == IF order = "self_first" THEN mpc_scalar ELSE operand
Rhs(order, operand) == IF order = "self_first" THEN operand ELSE mpc_scalar

\* no arithmetic operation has been applied and nothing is opened yet
ScalarComputing ==
    /\ last_scalar_op.op = "none"
    /\ \A p \in Parties : opened_scalar[p].state = "none"

\* nothing is opened yet
ScalarOpening == \A p \in Parties : opened_scalar[p].state = "none"

\* a + b or b + a, b being an MpcScalar or a Scalar wrapped by from_public_scalar
DoScalarAdd ==
    /\ ScalarComputing
    /\ \E order \in Orders, operand \in ScalarOperands :
        /\ mpc_scalar' = [p \in Parties |->
               mpc_scalar_add(Lhs(order, operand)[p], Rhs(order, operand)[p], p)]
        /\ last_scalar_op' = [op |-> "add", order |-> order, operand |-> operand]
    /\ UNCHANGED <<opened_scalar, network, beaver_source>>
    /\ UNCHANGED <<fabric_vars, alg_vars, open_vars, id_vars, session_vars>>

\* a - b or b - a
DoScalarSub ==
    /\ ScalarComputing
    /\ \E order \in Orders, operand \in ScalarOperands :
        /\ mpc_scalar' = [p \in Parties |->
               mpc_scalar_sub(Lhs(order, operand)[p], Rhs(order, operand)[p], p)]
        /\ last_scalar_op' = [op |-> "sub", order |-> order, operand |-> operand]
    /\ UNCHANGED <<opened_scalar, network, beaver_source>>
    /\ UNCHANGED <<fabric_vars, alg_vars, open_vars, id_vars, session_vars>>

\* -a
DoScalarNeg ==
    /\ ScalarComputing
    /\ mpc_scalar' = [p \in Parties |-> mpc_scalar_neg(mpc_scalar[p])]
    /\ last_scalar_op' = [op |-> "neg"]
    /\ UNCHANGED <<opened_scalar, network, beaver_source>>
    /\ UNCHANGED <<fabric_vars, alg_vars, open_vars, id_vars, session_vars>>

\* a * b or b * a: each open of the Beaver branch is one exchange, and the
\* branch takes one triplet from the source
DoScalarMul ==
    /\ ScalarComputing
    /\ \E order \in Orders, operand \in ScalarOperands :
        /\ \E triplet \in TripletsFor(Lhs(order, operand), Rhs(order, operand)) :
            /\ mpc_scalar' =
                   mpc_scalar_mul(Lhs(order, operand), Rhs(order, operand), triplet)
            /\ last_scalar_op' = [op |-> "mul", order |-> order,
                                  operand |-> operand, triplet |-> triplet]
        /\ network' = [p \in Parties |->
               network[p] + mul_opens(Lhs(order, operand), Rhs(order, operand))]
        /\ beaver_source' =
               beaver_source + mul_triplets(Lhs(order, operand), Rhs(order, operand))
    /\ UNCHANGED opened_scalar
    /\ UNCHANGED <<fabric_vars, alg_vars, open_vars, id_vars, session_vars>>

\* a.open() on both parties
DoScalarOpen ==
    /\ ScalarOpening
    /\ opened_scalar' = [p \in Parties |->
           [state |-> "ok", value |-> open(mpc_scalar[p], mpc_scalar[Peer(p)].value),
            by |-> "open"]]
    /\ network' = [p \in Parties |-> network[p] + open_sends(mpc_scalar[p])]
    /\ UNCHANGED <<mpc_scalar, beaver_source, last_scalar_op>>
    /\ UNCHANGED <<fabric_vars, alg_vars, open_vars, id_vars, session_vars>>

\* a.commit_and_open() on both parties: each commits to its share with a
\* blinder of its own, and tamper is what the peer of party 0 adds to the
\* share it reveals after it committed
DoScalarCommitAndOpen ==
    /\ ScalarOpening
    /\ \E blinding \in Scalars, tamper \in {0, 1} :
        LET blinder == Pair(blinding, scalar_add(blinding, 1))
            revealed == Pair(mpc_scalar[0].value,
                             scalar_add(mpc_scalar[1].value, tamper))
            r == [p \in Parties |->
                     commit_and_open(mpc_scalar[p],
                         pedersen_commit(mpc_scalar[Peer(p)].value, blinder[Peer(p)]),
                         blinder[Peer(p)], revealed[Peer(p)])]
        IN  /\ opened_scalar' = [p \in Parties |->
                   IF r[p].state = "ok"
                   THEN [state |-> "ok", value |-> r[p].value, by |-> "commit_and_open"]
                   ELSE [state |-> r[p].state, by |-> "commit_and_open"]]
            /\ network' = [p \in Parties |-> network[p] + r[p].sends]
    /\ UNCHANGED <<mpc_scalar, beaver_source, last_scalar_op>>
    /\ UNCHANGED <<fabric_vars, alg_vars, open_vars, id_vars, session_vars>>

ScalarNext == DoScalarAdd \/ DoScalarSub \/ DoScalarNeg \/ DoScalarMul \/ DoScalarOpen \/ DoScalarCommitAndOpen

ScalarSpec == ScalarInit /\ [][ScalarNext]_vars

\* ---------------------------------------------------- claims on MpcScalar
\* the step applies the arithmetic operation op
ScalarStep(op) == last_scalar_op.op = "none" /\ last_scalar_op'.op = op

\* the step opens the value with open or with commit_and_open
OpenStep(by) == opened_scalar' # opened_scalar /\ opened_scalar'[0].by = by

SelfIs(visibility) == \A p \in Parties : mpc_scalar[p].visibility = visibility

OperandIs(visibility) ==
    \A p \in Parties : last_scalar_op'.operand[p].visibility = visibility

\* the value an operand stands for: a public one is its value, a shared one
\* the sum of the two shares
Plaintext(x) == IF is_public(x[0]) THEN x[0].value ELSE SharedValue(x)

\* x is a sharing which both parties open to v
ScalarOpensTo(x, v) ==
    /\ \A p \in Parties : is_shared(x[p])
    /\ \A p \in Parties : open_both(x)[p] = from_public_scalar(v)

\* C22: opening a value that is not shared, with open or commit_and_open,
\* returns a visibility error to the caller and sends nothing on the network.
C22_OpenNotShared ==
    [][(/\ (OpenStep("open") \/ OpenStep("commit_and_open"))
        /\ \A p \in Parties : ~is_shared(mpc_scalar[p]))
       => \A p \in Parties :
              /\ opened_scalar'[p].state = "visibility_error"
              /\ network'[p] = network[p]]_vars

\* what holds of C22: commit_and_open of a value that is not shared returns
\* the visibility error and sends nothing
C22_CommitAndOpenNotShared ==
    [][(/\ OpenStep("commit_and_open")
        /\ \A p \in Parties : ~is_shared(mpc_scalar[p]))
       => \A p \in Parties :
              /\ opened_scalar'[p].state = "visibility_error"
              /\ network'[p] = network[p]]_vars

\* C23: opening a shared MpcScalar is exactly one exchange on each party, both
\* parties obtain the same Public value, the sum of the two shares, and the
\* opened MpcScalar keeps its share.
C23_OpenShared ==
    [][(OpenStep("open") /\ SelfIs("Shared"))
       => /\ \A p \in Parties :
                 /\ network'[p] = network[p] + 1
                 /\ opened_scalar'[p] =
                        [state |-> "ok",
                         value |-> MpcScalar(SharedValue(mpc_scalar), "Public"),
                         by |-> "open"]
          /\ mpc_scalar' = mpc_scalar]_vars

C23_Witness ==
    /\ mpc_scalar = Pair(MpcScalar(1, "Shared"), MpcScalar(1, "Shared"))
    /\ \A p \in Parties :
           opened_scalar[p] =
               [state |-> "ok", value |-> MpcScalar(2, "Public"), by |-> "open"]
    /\ network = Pair(1, 1)

\* C24: no addition uses the network.  Shared plus public, in either order:
\* the king adds the constant to its share, the other party keeps its share,
\* the result is Shared and opens to v + c.  Shared plus shared: each party
\* adds its two shares and the result opens to the sum of the two secrets.
C24_Addition ==
    [][ScalarStep("add")
       => /\ network' = network /\ beaver_source' = beaver_source
          /\ (SelfIs("Shared") /\ OperandIs("Public"))
             => /\ mpc_scalar'[0].value =
                       scalar_add(mpc_scalar[0].value, last_scalar_op'.operand[0].value)
                /\ mpc_scalar'[1].value = mpc_scalar[1].value
                /\ ScalarOpensTo(mpc_scalar', scalar_add(SharedValue(mpc_scalar),
                                                   last_scalar_op'.operand[0].value))
          /\ (SelfIs("Shared") /\ OperandIs("Shared"))
             => /\ \A p \in Parties :
                       mpc_scalar'[p].value =
                           scalar_add(mpc_scalar[p].value,
                                      last_scalar_op'.operand[p].value)
                /\ ScalarOpensTo(mpc_scalar', scalar_add(SharedValue(mpc_scalar),
                               SharedValue(last_scalar_op'.operand)))]_vars

\* a public constant was added on the left of a shared value
C24_Witness ==
    /\ last_scalar_op.op = "add"
    /\ last_scalar_op.order = "self_second"
    /\ last_scalar_op.operand = Pair(from_public_scalar(2), from_public_scalar(2))
    /\ mpc_scalar = Pair(MpcScalar(0, "Shared"), MpcScalar(1, "Shared"))
    /\ network = Pair(0, 0)

\* C25: shared [v] minus public c opens to v - c, public c minus shared [v]
\* opens to c - v, shared [x] minus shared [y] opens to x - y (and [y] minus
\* [x] to y - x), each with Shared visibility on both parties.
C25_Subtraction ==
    [][(ScalarStep("sub") /\ SelfIs("Shared"))
       => IF last_scalar_op'.order = "self_first"
          THEN ScalarOpensTo(mpc_scalar', scalar_sub(SharedValue(mpc_scalar),
                                               Plaintext(last_scalar_op'.operand)))
          ELSE ScalarOpensTo(mpc_scalar', scalar_sub(Plaintext(last_scalar_op'.operand),
                                               SharedValue(mpc_scalar)))]_vars

\* a shared value was subtracted from the public constant 1, leaving the
\* shares (2, 1) of 1 - v = 0
C25_Witness ==
    /\ last_scalar_op.op = "sub"
    /\ last_scalar_op.order = "self_second"
    /\ last_scalar_op.operand = Pair(from_public_scalar(1), from_public_scalar(1))
    /\ mpc_scalar = Pair(MpcScalar(2, "Shared"), MpcScalar(1, "Shared"))

\* C26: for an MpcScalar a of any visibility and a Scalar s, a + s and s + a
\* hold the same local value on either party.
C26_AddCommutative ==
    [][(/\ ScalarStep("add")
        /\ OperandIs("Public")
        /\ last_scalar_op'.order = "self_first")
       => \A p \in Parties :
              /\ mpc_scalar'[p] =
                     add_scalar(mpc_scalar[p], last_scalar_op'.operand[p].value, p)
              /\ mpc_scalar'[p].value =
                     scalar_add_mpc(last_scalar_op'.operand[p].value,
                                    mpc_scalar[p], p).value]_vars

\* what holds of C26: a + s and s + a agree on the king, and on the other
\* party unless a is Private
C26_AddCommutativeUnlessPrivate ==
    [][(/\ ScalarStep("add")
        /\ OperandIs("Public")
        /\ last_scalar_op'.order = "self_first")
       => \A p \in Parties :
              (am_king(p) \/ mpc_scalar[p].visibility # "Private")
              => mpc_scalar'[p] =
                     scalar_add_mpc(last_scalar_op'.operand[p].value,
                                    mpc_scalar[p], p)]_vars

\* C27: multiplying by a public value, in either order, uses neither the
\* network nor a Beaver triplet; each party multiplies its local value by the
\* public one, and when the other operand is shared the result is Shared and
\* opens to the product.
C27_MulPublic ==
    [][(ScalarStep("mul") /\ (SelfIs("Public") \/ OperandIs("Public")))
       => /\ network' = network /\ beaver_source' = beaver_source
          /\ \A p \in Parties :
                 mpc_scalar'[p].value =
                     scalar_mul(mpc_scalar[p].value, last_scalar_op'.operand[p].value)
          /\ (SelfIs("Shared") \/ OperandIs("Shared"))
             => ScalarOpensTo(mpc_scalar',
                        scalar_mul(Plaintext(mpc_scalar),
                                   Plaintext(last_scalar_op'.operand)))]_vars

\* the public value 2 was multiplied, on the left, with the shares (2, 2) of 1:
\* the shares (1, 1) open to 2
C27_Witness ==
    /\ last_scalar_op.op = "mul"
    /\ last_scalar_op.order = "self_second"
    /\ last_scalar_op.operand = Pair(from_public_scalar(2), from_public_scalar(2))
    /\ mpc_scalar = Pair(MpcScalar(1, "Shared"), MpcScalar(1, "Shared"))
    /\ network = Pair(0, 0) /\ beaver_source = 0

\* d and e of a Beaver multiplication of x and y with the triplet t
BeaverD(x, t) == scalar_sub(SharedValue(x), scalar_add(t[0].a, t[1].a))
BeaverE(y, t) == scalar_sub(SharedValue(y), scalar_add(t[0].b, t[1].b))

\* d * [b] + e * [a] + [c] on party p
BeaverShare(x, y, t, p) ==
    scalar_add(scalar_add(scalar_mul(BeaverD(x, t), t[p].b),
                          scalar_mul(BeaverE(y, t), t[p].a)), t[p].c)

\* C28: the product of two shared values [x] and [y] is Shared and opens to
\* x * y; each party holds d * [b] + e * [a] + [c] with d = open(x - a) and
\* e = open(y - b), to which the king alone adds d * e; the multiplication
\* performs exactly two opens and takes one triplet.
C28_BeaverMul ==
    [][(ScalarStep("mul") /\ SelfIs("Shared") /\ OperandIs("Shared"))
       => LET x == Lhs(last_scalar_op'.order, last_scalar_op'.operand)
              y == Rhs(last_scalar_op'.order, last_scalar_op'.operand)
              t == last_scalar_op'.triplet
          IN  /\ ScalarOpensTo(mpc_scalar',
                         scalar_mul(SharedValue(x), SharedValue(y)))
              /\ mpc_scalar'[0].value =
                     scalar_add(BeaverShare(x, y, t, 0),
                                scalar_mul(BeaverD(x, t), BeaverE(y, t)))
              /\ mpc_scalar'[1].value = BeaverShare(x, y, t, 1)
              /\ \A p \in Parties : network'[p] = network[p] + 2
              /\ beaver_source' = beaver_source + 1]_vars

\* shares of 2 and of 2 were multiplied with d = 2 - 2 = 0 and e = 2 - 1 = 1,
\* after which the parties hold shares of 1
C28_Witness ==
    /\ last_scalar_op.op = "mul"
    /\ last_scalar_op.operand = Pair(MpcScalar(1, "Shared"), MpcScalar(1, "Shared"))
    /\ scalar_add(last_scalar_op.triplet[0].a, last_scalar_op.triplet[1].a) = 2
    /\ scalar_add(last_scalar_op.triplet[0].b, last_scalar_op.triplet[1].b) = 1
    /\ SharedValue(mpc_scalar) = 1
    /\ SelfIs("Shared")
    /\ network = Pair(2, 2) /\ beaver_source = 1

\* ===================================================== result id allocation
\* Both parties run the same program on authenticated points.  Every result a
\* party allocates takes the next result id of its fabric; next_id is that
\* counter and point_ids the handles (the result ids of their fields) of the
\* values the program has produced so far, on each party.

MaxProgram == 3

\* what a call returns: the handle, and the fabric's next result id after it
Allocated(value, next) == [value |-> value, next |-> next]

\* MpcFabric::new_gate_op and allocate_point / allocate_scalar: one new result
new_result(next) == Allocated(next, next + 1)

\* MpcFabric::exchange_value: a Network operation for the value sent and a
\* result for the value received
exchange_value(next) == Allocated(next + 1, next + 2)

\* AuthenticatedStarkPointResult::new_shared of a newly allocated point: the
\* share is the point's own result, the MAC a gate, the modifier an allocation
new_shared_ids(next) ==
    LET value == new_result(next)
        mac == new_result(value.next)
        public_modifier == new_result(mac.next)
    IN  Allocated([share |-> value.value, mac |-> mac.value,
                   public_modifier |-> public_modifier.value], public_modifier.next)

\* the new share of self + other if the other parties kept their share as it is
add_share_unscheduled(self, next, party_id) ==
    IF party_id = PARTY0 THEN new_result(next) ELSE Allocated(self.share, next)

\* the new share of self + other, other a public point: party 0 schedules
\* share + other, the other parties schedule share + identity
add_share(self, next, party_id) ==
    IF party_id = PARTY0 THEN new_result(next) ELSE new_result(next)

\* the new share of self - other, other a public point: party 0 schedules
\* share - other, the other parties schedule share - identity
sub_share(self, next, party_id) ==
    IF party_id = PARTY0 THEN new_result(next) ELSE new_result(next)

\* impl Add<&StarkPoint> and Add<&StarkPointResult>: the MAC is cloned
add_point_ids(self, next, party_id) ==
    LET new_share == add_share(self, next, party_id)
        new_modifier == new_result(new_share.next)
    IN  Allocated([share |-> new_share.value, mac |-> self.mac,
                   public_modifier |-> new_modifier.value], new_modifier.next)

\* impl Sub<&StarkPoint> and Sub<&StarkPointResult>: the MAC is cloned
sub_point_ids(self, next, party_id) ==
    LET new_share == sub_share(self, next, party_id)
        new_modifier == new_result(new_share.next)
    IN  Allocated([share |-> new_share.value, mac |-> self.mac,
                   public_modifier |-> new_modifier.value], new_modifier.next)

\* impl Add<&AuthenticatedStarkPointResult>: a gate for each field
add_authenticated_ids(self, other, next, party_id) ==
    LET new_share == new_result(next)
        new_mac == new_result(new_share.next)
        new_modifier == new_result(new_mac.next)
    IN  Allocated([share |-> new_share.value, mac |-> new_mac.value,
                   public_modifier |-> new_modifier.value], new_modifier.next)

\* impl Sub<&AuthenticatedStarkPointResult>: the modifier is cloned
sub_authenticated_ids(self, other, next, party_id) ==
    LET new_share == new_result(next)
        new_mac == new_result(new_share.next)
    IN  Allocated([share |-> new_share.value, mac |-> new_mac.value,
                   public_modifier |-> self.public_modifier], new_mac.next)

\* impl Neg: the modifier is cloned
neg_ids(self, next, party_id) ==
    LET new_share == new_result(next)
        new_mac == new_result(new_share.next)
    IN  Allocated([share |-> new_share.value, mac |-> new_mac.value,
                   public_modifier |-> self.public_modifier], new_mac.next)

\* impl Mul<&Scalar> and Mul<&ScalarResult>: a gate for each field
mul_scalar_ids(self, next, party_id) ==
    LET new_share == new_result(next)
        new_mac == new_result(new_share.next)
        new_modifier == new_result(new_mac.next)
    IN  Allocated([share |-> new_share.value, mac |-> new_mac.value,
                   public_modifier |-> new_modifier.value], new_modifier.next)

\* MpcStarkPointResult::open: an exchange of the share, then the sum gate
open_ids(next) == new_result(exchange_value(next).next)

\* open_authenticated: the opening, the MAC check gate, the commitment, three
\* exchanges, the allocated blinder and the commitment check gate
open_authenticated_ids(self, next, party_id) ==
    LET recovered_value == open_ids(next)
        mac_check == new_result(recovered_value.next)
        my_comm == new_result(mac_check.next)
        peer_commit == exchange_value(my_comm.next)
        peer_mac_check == exchange_value(peer_commit.next)
        blinder_result == new_result(peer_mac_check.next)
        peer_blinder == exchange_value(blinder_result.next)
        commitment_check == new_result(peer_blinder.next)
    IN  Allocated([value |-> recovered_value.value,
                   mac_check |-> commitment_check.value], commitment_check.next)

\* the authenticated points among the values produced so far
PointsProduced ==
    {i \in 1 .. Len(point_ids[PARTY0]) : "share" \in DOMAIN point_ids[PARTY0][i].handle}

\* both parties execute the same statement: r[p] is what it returns on party p
Produce(statement, r) ==
    /\ point_ids' = [p \in Parties |->
           Append(point_ids[p], [statement |-> statement, handle |-> r[p].value])]
    /\ next_id' = [p \in Parties |-> r[p].next]
    /\ UNCHANGED <<fabric_vars, alg_vars, open_vars, scalar_vars, session_vars>>

\* the fabric has allocated its share of the MAC key, the result 0
IdInit ==
    /\ FabricInit /\ AlgebraIdle /\ OpenIdle /\ ScalarIdle /\ SessionIdle
    /\ next_id = Pair(1, 1)
    /\ point_ids = Pair(<<>>, <<>>)

AllocNewShared ==
    /\ Len(point_ids[PARTY0]) < MaxProgram
    /\ Produce(<<"new_shared">>, [p \in Parties |-> new_shared_ids(next_id[p])])

AllocAddPoint ==
    /\ Len(point_ids[PARTY0]) < MaxProgram
    /\ \E i \in PointsProduced :
           Produce(<<"add_point", i>>, [p \in Parties |-> add_point_ids(point_ids[p][i].handle, next_id[p], p)])

AllocSubPoint ==
    /\ Len(point_ids[PARTY0]) < MaxProgram
    /\ \E i \in PointsProduced :
           Produce(<<"sub_point", i>>, [p \in Parties |-> sub_point_ids(point_ids[p][i].handle, next_id[p], p)])

AllocAddAuthenticated ==
    /\ Len(point_ids[PARTY0]) < MaxProgram
    /\ \E i, j \in PointsProduced :
           Produce(<<"add_authenticated", i, j>>, [p \in Parties |->
               add_authenticated_ids(point_ids[p][i].handle, point_ids[p][j].handle, next_id[p], p)])

AllocSubAuthenticated ==
    /\ Len(point_ids[PARTY0]) < MaxProgram
    /\ \E i, j \in PointsProduced :
           Produce(<<"sub_authenticated", i, j>>, [p \in Parties |->
               sub_authenticated_ids(point_ids[p][i].handle, point_ids[p][j].handle, next_id[p], p)])

AllocNeg ==
    /\ Len(point_ids[PARTY0]) < MaxProgram
    /\ \E i \in PointsProduced :
           Produce(<<"neg", i>>, [p \in Parties |-> neg_ids(point_ids[p][i].handle, next_id[p], p)])

AllocMulScalar ==
    /\ Len(point_ids[PARTY0]) < MaxProgram
    /\ \E i \in PointsProduced :
           Produce(<<"mul_scalar", i>>, [p \in Parties |-> mul_scalar_ids(point_ids[p][i].handle, next_id[p], p)])

AllocOpenAuthenticated ==
    /\ Len(point_ids[PARTY0]) < MaxProgram
    /\ \E i \in PointsProduced :
           Produce(<<"open_authenticated", i>>, [p \in Parties |->
               open_authenticated_ids(point_ids[p][i].handle, next_id[p], p)])

IdNext ==
    \/ AllocNewShared \/ AllocAddPoint \/ AllocSubPoint \/ AllocAddAuthenticated
    \/ AllocSubAuthenticated \/ AllocNeg \/ AllocMulScalar \/ AllocOpenAuthenticated

IdSpec == IdInit /\ [][IdNext]_vars

\* C21: after any common sequence of operations on authenticated points the
\* two parties have allocated the same number of result ids, and every value
\* produced has the same result ids on both parties.
C21_PartySymmetricIds ==
    /\ next_id[0] = next_id[1]
    /\ point_ids[0] = point_ids[1]

\* a public point was added to the first shared value: on party 1, which
\* leaves its share unchanged, the sum took two new results and kept the MAC
C21_Witness ==
    /\ Len(point_ids[1]) = MaxProgram
    /\ point_ids[1][1].handle = [share |-> 1, mac |-> 2, public_modifier |-> 3]
    /\ point_ids[1][2].statement = <<"add_point", 1>>
    /\ point_ids[1][2].handle = [share |-> 4, mac |-> 2, public_modifier |-> 5]
    /\ point_ids[1][3].statement = <<"open_authenticated", 2>>
    /\ next_id[1] = 19

\* ------------------------------------------- claims on the executor, again
\* the unwraps that fail when an operation id is looked up after its removal
AbsentPanics ==
    {"append_ready_ops: operation absent", "execute_operations: operation absent"}

\* C31: every scheduled operation is evaluated at most once and leaves the
\* in-flight buffer when it is evaluated; no lookup of an operation, from a
\* dependency entry or from the ready list, finds it absent.
C31_EvaluatedOnce ==
    /\ \A o \in OpIds : evals[o] <= 1
    /\ \A o \in OpIds : evals[o] >= 1 => ~BufHas(operations, o)
    /\ panic \notin AbsentPanics

\* what holds of C31: no operation is evaluated twice, and an evaluated
\* operation is not in the buffer
C31_EvaluatedAtMostOnce ==
    /\ \A o \in OpIds : evals[o] <= 1
    /\ \A o \in OpIds : evals[o] >= 1 => ~BufHas(operations, o)

\* the result ids of the batch gate b
BatchIds(b) == circuit[b].result_id .. (circuit[b].result_id + circuit[b].output_arity - 1)

\* the operations scheduled that wait on at least two result ids of b
BatchDependents(b) ==
    {o \in OpIds :
        Cardinality({r \in BatchIds(b) :
            BufHas(dependencies, r) /\ o \in Range(dependencies[r])}) >= 2}

\* C32: the step that evaluates a GateBatch whose closure returns as many
\* values as the gate has result ids puts the i-th value under the i-th id,
\* for every i; an operation that waits on several of these ids is evaluated
\* in a state where all of them are in the results buffer, and never before.
C32_BatchPublishes ==
    [][\A b \in DOMAIN circuit :
          (/\ circuit[b].op_type = "GateBatch"
           /\ circuit[b].n = circuit[b].output_arity)
          => /\ (evals'[b] = evals[b] + 1)
                => \A r \in BatchIds(b) :
                       /\ ~BufHas(results, r)
                       /\ BufHas(results', r)
                       /\ results'[r] = expected[r]
             /\ \A o \in BatchDependents(b) :
                    (evals'[o] = evals[o] + 1)
                    => /\ \A r \in BatchIds(b) : BufHas(results', r)
                       /\ panic' # "compute_result: argument absent"
             /\ \A o \in BatchDependents(b) :
                    (\E r \in BatchIds(b) : ~BufHas(results, r)) => evals[o] = 0]_vars

\* a batch gate with two result ids was evaluated behind a peer value, and an
\* operation that waited on both of its ids was evaluated after it
C32_Witness ==
    \E b \in DOMAIN circuit, o \in OpIds :
        /\ circuit[b].op_type = "GateBatch"
        /\ circuit[b].output_arity = 2
        /\ circuit[b].n = 2
        /\ evals[b] = 1
        /\ o \in BatchDependents(b)
        /\ evals[o] = 1
        /\ \A r \in BatchIds(b) : BufHas(results, r) /\ results[r] = expected[r]
        /\ results[circuit[b].result_id] # results[circuit[b].result_id + 1]

\* the flag and value both parties get when they open pt honestly
HonestOpen(pt) == open_authenticated(pt, mac_key, Pair(0, 1))

\* C33: the difference x - y of two honestly produced authenticated points,
\* y's public modifier being the identity or not, opens to
\* secret(x) - secret(y) with flag 1 on both parties
C33_SubAuthenticatedOpen ==
    [][\A other \in Operands :
          (/\ last_op' = "sub"
           /\ Computing
           /\ MacRelation(auth_point)
           /\ MacRelation(other.point)
           /\ auth_point' = [p \in Parties |->
                                 sub_authenticated(auth_point[p], other.point[p])]
           /\ secret' = point_sub(secret, other.secret))
          => \A p \in Parties :
                /\ HonestOpen(auth_point').mac_check[p] = 1
                /\ HonestOpen(auth_point').value[p] = secret']_vars

\* C34: c - x, the public point c on the left of an authenticated point x
\* with secret v, opens to c - v with flag 1 on both parties
C34_PointSubAuthenticatedOpen ==
    [][\A c \in Points :
          (/\ last_op' = "point_sub"
           /\ Computing
           /\ MacRelation(auth_point)
           /\ SharesSum(auth_point) = secret
           /\ auth_point' = [p \in Parties |->
                                 point_sub_authenticated(c, auth_point[p], p)])
          => \A p \in Parties :
                /\ HonestOpen(auth_point').mac_check[p] = 1
                /\ HonestOpen(auth_point').value[p] = point_sub(c, secret)]_vars

\* C34, as the code computes it: c - x opens to v - c with flag 1
C34_PointSubAuthenticatedSwapped ==
    [][\A c \in Points :
          (/\ last_op' = "point_sub"
           /\ Computing
           /\ MacRelation(auth_point)
           /\ SharesSum(auth_point) = secret
           /\ auth_point' = [p \in Parties |->
                                 point_sub_authenticated(c, auth_point[p], p)])
          => \A p \in Parties :
                /\ HonestOpen(auth_point').mac_check[p] = 1
                /\ HonestOpen(auth_point').value[p] = point_sub(secret, c)]_vars

\* --------------------------------------- two-party calls on the MpcNetwork
\* Both parties make the same call of MpcScalar: commit_and_open,
\* batch_commit_and_open, share_secret or batch_share_secrets.  Every call of
\* the network blocks its caller: a send puts a payload on the wire to the
\* peer, a receive takes the oldest payload from the party's own wire, and a
\* broadcast is a send followed by a receive.
MaxBatch == 2

Min(a, b) == IF a < b THEN a ELSE b

\* MpcNetwork::send_*: the payload goes on the wire to the peer
send(from, kind, payload) == [wire EXCEPT ![Peer(from)] = Append(@, [kind |-> kind, payload |-> payload])]

\* MpcNetwork::receive_*: the oldest payload sent to the party, of the
\* expected kind
can_receive(p, kind) == wire[p] # <<>> /\ Head(wire[p]).kind = kind

\* the sender of share_secret keeps the value itself
share_secret_keep(self, random_share) == MpcScalar(self.value, "Shared")

\* the sender's arm of share_secret: value - R, as a shared value
share_secret(self, random_share) == MpcScalar(scalar_sub(self.value, random_share), "Shared")

\* MpcScalar::receive_value: what arrived, as a shared value
scalar_receive_value(value) == MpcScalar(value, "Shared")

\* the sender's arm of batch_share_secrets: zip of the secrets and the random
\* shares
batch_share_secrets(secrets, random_shares) == [i \in 1 .. Min(Len(secrets), Len(random_shares)) |-> MpcScalar(scalar_sub(secrets[i].value, random_shares[i]), "Shared")]

\* MpcScalar::receive_values_batch
receive_values_batch(values) == [i \in 1 .. Len(values) |-> MpcScalar(values[i], "Shared")]

\* one Pedersen commitment per value
commitments_of(values, blindings) == [i \in 1 .. Len(values) |-> pedersen_commit(values[i].value, blindings[i])]

\* commitment_data: blinding and value of each commitment, in turn
commitment_data(values, blindings) == [k \in 1 .. 2 * Len(values) |-> IF k % 2 = 1 THEN blindings[(k + 1) \div 2] ELSE values[k \div 2].value]

\* the pairs chunks(2) zipped with the peer's commitments go over
verified_pairs(received_values, peer_commitments) == 1 .. Min(Len(received_values) \div 2, Len(peer_commitments))

\* batch_commit_and_open that opens the positions whose commitment verifies
batch_commit_and_open_lenient(values, peer_commitments, received_values) ==
    [state |-> "ok",
     values |-> [i \in 1 .. Min(Len(values), Len(received_values) \div 2) |->
                    IF verify_from_values(peer_commitments[i], received_values[2 * i - 1],
                                          received_values[2 * i])
                    THEN MpcScalar(scalar_add(values[i].value, received_values[2 * i]), "Public")
                    ELSE values[i]]]

\* the end of batch_commit_and_open, once the peer's commitments and the
\* peer's revealed blindings and values are there
batch_commit_and_open(values, peer_commitments, received_values) ==
    IF \E i \in verified_pairs(received_values, peer_commitments) :
          ~verify_from_values(peer_commitments[i], received_values[2 * i - 1],
                              received_values[2 * i])
    THEN [state |-> "authentication_error"]
    ELSE [state |-> "ok",
          values |-> [i \in 1 .. Min(Len(values), Len(received_values) \div 2) |->
                         MpcScalar(scalar_add(values[i].value, received_values[2 * i]),
                                   "Public")]]

\* a party may reveal before the peer's commitments arrived
may_reveal_early(p) == party[p].pc \in {"commitments_sent", "commitments_received"}

\* the second broadcast of commit_and_open comes after the first returned
may_reveal(p) == party[p].pc = "commitments_received"

CommitCalls == {"commit_and_open", "batch_commit_and_open"}
ShareCalls == {"share_secret", "batch_share_secrets"}

\* the values a party holds at the start: v, v + 1, ...
Held(v, n, visibility) == [i \in 1 .. n |-> MpcScalar(scalar_add(v, i - 1), visibility)]

\* blinding factors b, b + 1, ...
Blindings(b, n) == [i \in 1 .. n |-> scalar_add(b, i - 1)]

Started(fn, party_id, values) ==
    [pc |-> "start", fn |-> fn, party_id |-> party_id, values |-> values,
     commitments |-> <<>>, peer_commitments |-> <<>>, revealed |-> <<>>,
     sends |-> 0, result |-> [state |-> "none"]]

SessionInit ==
    /\ FabricInit /\ AlgebraIdle /\ OpenIdle /\ ScalarIdle /\ IdIdle
    /\ wire = Pair(<<>>, <<>>)
    /\ call = [fn |-> "none"]
    /\ \E v \in [Parties -> Scalars] :
          \/ \E visibility \in [Parties -> {"Shared", "Public"}] :
                party = [p \in Parties |->
                            Started("commit_and_open", PARTY0, Held(v[p], 1, visibility[p]))]
          \/ \E n \in 1 .. MaxBatch :
                party = [p \in Parties |->
                            Started("batch_commit_and_open", PARTY0, Held(v[p], n, "Shared"))]
          \/ \E party_id \in Parties :
                party = [p \in Parties |->
                            Started("share_secret", party_id, Held(v[p], 1, "Private"))]
          \/ \E party_id \in Parties, n \in 1 .. MaxBatch :
                party = [p \in Parties |->
                            Started("batch_share_secrets", party_id, Held(v[p], n, "Private"))]

SessionStep(p, new_party, new_wire) ==
    /\ party' = [party EXCEPT ![p] = new_party]
    /\ wire' = new_wire
    /\ UNCHANGED <<call, fabric_vars, alg_vars, open_vars, scalar_vars, id_vars>>

\* commit_and_open on a value that is not shared
CommitVisibilityError(p) ==
    /\ party[p].pc = "start"
    /\ party[p].fn = "commit_and_open"
    /\ ~is_shared(party[p].values[1])
    /\ SessionStep(p, [party[p] EXCEPT !.pc = "done",
                                       !.result = [state |-> "visibility_error"]], wire)

\* the first half of broadcast_single_point / broadcast_points
BroadcastCommitments(p) ==
    /\ party[p].pc = "start"
    /\ party[p].fn \in CommitCalls
    /\ party[p].fn = "commit_and_open" => is_shared(party[p].values[1])
    /\ \E b \in Scalars :
          LET blindings == Blindings(b, Len(party[p].values))
              commitments == commitments_of(party[p].values, blindings)
          IN  SessionStep(p, [party[p] EXCEPT !.pc = "commitments_sent",
                                              !.commitments = commitments,
                                              !.revealed = commitment_data(party[p].values,
                                                                           blindings),
                                              !.sends = @ + 1],
                          send(p, "commitments", commitments))

\* the second half: the peer's commitments arrive
ReceiveCommitments(p) ==
    /\ party[p].pc = "commitments_sent"
    /\ can_receive(p, "commitments")
    /\ SessionStep(p, [party[p] EXCEPT !.pc = "commitments_received",
                                       !.peer_commitments = Head(wire[p]).payload],
                   [wire EXCEPT ![p] = Tail(@)])

\* the first half of broadcast_scalars: blinding and value of every
\* commitment; a dishonest party reveals something else at one position
BroadcastOpening(p) ==
    /\ may_reveal(p)
    /\ party[p].fn \in CommitCalls
    /\ \E k \in 0 .. Len(party[p].revealed) :
          LET revealed == IF k = 0 THEN party[p].revealed
                          ELSE [party[p].revealed EXCEPT ![k] = scalar_add(@, 1)]
          IN  SessionStep(p, [party[p] EXCEPT !.pc = "opening_sent",
                                              !.revealed = revealed,
                                              !.sends = @ + 1],
                          send(p, "opening", revealed))

\* the second half, and the verification of the peer's opening
ReceiveOpening(p) ==
    /\ party[p].pc = "opening_sent"
    /\ can_receive(p, "opening")
    /\ LET received_scalars == Head(wire[p]).payload
           r == IF party[p].fn = "commit_and_open"
                THEN commit_and_open(party[p].values[1], party[p].peer_commitments[1],
                                     received_scalars[1], received_scalars[2])
                ELSE batch_commit_and_open(party[p].values, party[p].peer_commitments,
                                           received_scalars)
           result == IF r.state # "ok" THEN [state |-> r.state]
                     ELSE IF party[p].fn = "commit_and_open"
                     THEN [state |-> "ok", values |-> <<r.value>>]
                     ELSE r
       IN  SessionStep(p, [party[p] EXCEPT !.pc = "done", !.result = result],
                       [wire EXCEPT ![p] = Tail(@)])

\* share_secret / batch_share_secrets on the party whose id is party_id
ShareSend(p) ==
    /\ party[p].pc = "start"
    /\ party[p].fn \in ShareCalls
    /\ p = party[p].party_id
    /\ \E random_shares \in [1 .. Len(party[p].values) -> Scalars] :
          LET shares == IF party[p].fn = "share_secret"
                        THEN <<share_secret(party[p].values[1], random_shares[1])>>
                        ELSE batch_share_secrets(party[p].values, random_shares)
          IN  SessionStep(p, [party[p] EXCEPT !.pc = "done",
                                              !.revealed = random_shares,
                                              !.sends = @ + 1,
                                              !.result = [state |-> "ok", values |-> shares]],
                          send(p, "shares", random_shares))

\* share_secret / batch_share_secrets on the other party
ShareReceive(p) ==
    /\ party[p].pc = "start"
    /\ party[p].fn \in ShareCalls
    /\ p # party[p].party_id
    /\ can_receive(p, "shares")
    /\ LET values == Head(wire[p]).payload
           shares == IF party[p].fn = "share_secret"
                     THEN <<scalar_receive_value(values[1])>>
                     ELSE receive_values_batch(values)
       IN  SessionStep(p, [party[p] EXCEPT !.pc = "done",
                                           !.result = [state |-> "ok", values |-> shares]],
                       [wire EXCEPT ![p] = Tail(@)])

DoCommitVisibilityError == \E p \in Parties : CommitVisibilityError(p)
DoBroadcastCommitments == \E p \in Parties : BroadcastCommitments(p)
DoReceiveCommitments == \E p \in Parties : ReceiveCommitments(p)
DoBroadcastOpening == \E p \in Parties : BroadcastOpening(p)
DoReceiveOpening == \E p \in Parties : ReceiveOpening(p)
DoShareSend == \E p \in Parties : ShareSend(p)
DoShareReceive == \E p \in Parties : ShareReceive(p)

SessionNext ==
    \/ DoCommitVisibilityError
    \/ DoBroadcastCommitments
    \/ DoReceiveCommitments
    \/ DoBroadcastOpening
    \/ DoReceiveOpening
    \/ DoShareSend
    \/ DoShareReceive

SessionSpec == SessionInit /\ [][SessionNext]_vars

\* ------------------------------------------- claims on the two-party calls
\* party p puts its opening on the wire in this step
Reveals(p) ==
    /\ Len(wire'[Peer(p)]) = Len(wire[Peer(p)]) + 1
    /\ wire'[Peer(p)][Len(wire'[Peer(p)])].kind = "opening"

Returned(p, fn) == party[p].fn = fn /\ party[p].pc = "done"

\* C35: in commit_and_open a party reveals its blinding and value only after
\* it received the peer's commitment; when the call succeeds the result is
\* Public and is the local share plus the value the peer revealed.
C35_CommitThenReveal ==
    /\ [][\A p \in Parties :
            (party[p].fn = "commit_and_open" /\ Reveals(p))
            => /\ party[Peer(p)].commitments # <<>>
               /\ party[p].peer_commitments = party[Peer(p)].commitments
               /\ wire'[Peer(p)][Len(wire'[Peer(p)])].payload =
                     party'[p].revealed]_vars
    /\ [](\A p \in Parties :
            (Returned(p, "commit_and_open") /\ party[p].result.state = "ok")
            => party[p].result.values =
                  <<MpcScalar(scalar_add(party[p].values[1].value,
                                         party[Peer(p)].revealed[2]), "Public")>>)

\* C35 witness: both parties opened shares of a value other than zero, each
\* share being other than zero
C35_Witness ==
    /\ \A p \in Parties :
          /\ Returned(p, "commit_and_open")
          /\ party[p].result.state = "ok"
          /\ party[p].values[1].value # 0
          /\ party[p].result.values[1].value # 0
          /\ party[p].sends = 2

\* the opening the peer revealed does not match the commitments it sent
Mismatch(p) ==
    \E i \in 1 .. Len(party[p].peer_commitments) :
       ~verify_from_values(party[p].peer_commitments[i],
                           party[Peer(p)].revealed[2 * i - 1],
                           party[Peer(p)].revealed[2 * i])

\* C36: when a value or a blinding the peer revealed does not match the
\* commitment it sent before, commit_and_open and batch_commit_and_open return
\* an authentication error and no opened value, not even for the positions
\* of the batch that verify.
C36_MismatchIsError ==
    \A p \in Parties :
       (party[p].fn \in CommitCalls /\ party[p].pc = "done"
           /\ party[p].result.state # "visibility_error" /\ Mismatch(p))
       => party[p].result = [state |-> "authentication_error"]

\* C36 witness: in a batch of two the peer revealed a wrong value at the
\* second position only, and the call returned the error
C36_Witness ==
    \E p \in Parties :
       /\ Returned(p, "batch_commit_and_open")
       /\ Len(party[p].values) = 2
       /\ verify_from_values(party[p].peer_commitments[1],
                             party[Peer(p)].revealed[1], party[Peer(p)].revealed[2])
       /\ ~verify_from_values(party[p].peer_commitments[2],
                              party[Peer(p)].revealed[3], party[Peer(p)].revealed[4])
       /\ party[p].result = [state |-> "authentication_error"]

\* C37: in share_secret and batch_share_secrets only the party whose id is
\* party_id transmits, one random R per secret, and keeps value - R; the other
\* party only receives and holds R; both results are Shared, there are as many
\* of them as secrets, and the two shares of a position add up to the secret.
C37_ShareSecret ==
    \A p \in Parties :
       party[p].fn \in ShareCalls =>
          LET sender == party[party[p].party_id]
              receiver == party[Peer(party[p].party_id)]
          IN  /\ receiver.sends = 0
              /\ sender.sends = IF sender.pc = "done" THEN 1 ELSE 0
              /\ sender.pc = "done" => Len(sender.revealed) = Len(sender.values)
              /\ party[p].pc = "done" =>
                    /\ party[p].result.state = "ok"
                    /\ Len(party[p].result.values) = Len(party[p].values)
                    /\ \A i \in 1 .. Len(party[p].result.values) :
                          party[p].result.values[i].visibility = "Shared"
              /\ receiver.pc = "done" =>
                    \A i \in 1 .. Len(sender.values) :
                       /\ receiver.result.values[i].value = sender.revealed[i]
                       /\ sender.result.values[i].value =
                             scalar_sub(sender.values[i].value, sender.revealed[i])
                       /\ scalar_add(sender.result.values[i].value,
                                     receiver.result.values[i].value) =
                             sender.values[i].value

\* C37 witness: party 1 shared a batch of two secrets, with random shares
\* other than zero
C37_Witness ==
    /\ \A p \in Parties : Returned(p, "batch_share_secrets")
    /\ party[0].party_id = 1
    /\ Len(party[1].values) = 2
    /\ \A i \in 1 .. 2 : party[0].result.values[i].value # 0
    /\ party[1].values[1].value # 0
    /\ wire = Pair(<<>>, <<>>)

\* ------------------------------------------------ draws of Beaver triplets
\* The SharedValueSource is a stream of triplets; a triplet is named by its
\* position in the stream and beaver_source is the position of the next one.
\* Each operation returns the triplets it drew and the source after it.
MaxCalls == 3
MaxPairs == 2

NoDraw(source) == [triplets |-> <<>>, source |-> source]

\* SharedValueSource::next_triplet
next_triplet(source) == [triplets |-> <<source>>, source |-> source + 1]

\* a batch that draws once and repeats the triplet
next_triplet_batch_repeated(source, num_triplets) == [triplets |-> [i \in 1 .. num_triplets |-> source], source |-> source + 1]

\* SharedValueSource::next_triplet_batch: (0..num_triplets).map(next_triplet)
RECURSIVE next_triplet_batch(_, _)
next_triplet_batch(source, num_triplets) == IF num_triplets = 0 THEN NoDraw(source) ELSE LET first == next_triplet(source) rest == next_triplet_batch(first.source, num_triplets - 1) IN [triplets |-> first.triplets \o rest.triplets, source |-> rest.source]

\* Mul for MpcScalar: next_beaver_triplet when both operands are shared
mpc_scalar_mul_draws(source, lhs, rhs) == IF is_shared(lhs) /\ is_shared(rhs) THEN next_triplet(source) ELSE NoDraw(source)

\* Mul<&AuthenticatedScalarResult> for &AuthenticatedStarkPointResult:
\* one next_authenticated_triple
mul_authenticated_draws(source) == next_triplet(source)

\* Mul<&Scalar> and Mul<&ScalarResult> for &AuthenticatedStarkPointResult
mul_scalar_draws(source) == NoDraw(source)

\* AuthenticatedStarkPointResult::msm: the product of the first pair, then
\* the fold over the other pairs, one product each
RECURSIVE msm_fold_draws(_, _)
msm_fold_draws(acc, pairs) == IF pairs = 0 THEN acc ELSE LET product == mul_authenticated_draws(acc.source) IN msm_fold_draws([triplets |-> acc.triplets \o product.triplets, source |-> product.source], pairs - 1)

msm_draws(source, pairs) == msm_fold_draws(mul_authenticated_draws(source), pairs - 1)

DrawInit ==
    /\ FabricInit /\ AlgebraIdle /\ OpenIdle /\ ScalarIdle /\ IdIdle
    /\ party = Pair([pc |-> "idle"], [pc |-> "idle"])
    /\ wire = Pair(<<>>, <<>>)
    /\ call = [fn |-> "draws", log |-> <<>>]

\* the operation is run: its triplets are logged and the source moves on
Draw(entry, drawn) ==
    /\ Len(call.log) < MaxCalls
    /\ call' = [call EXCEPT !.log = Append(@, entry @@ [triplets |-> drawn.triplets])]
    /\ beaver_source' = drawn.source
    /\ UNCHANGED <<mpc_scalar, opened_scalar, network, last_scalar_op>>
    /\ UNCHANGED <<party, wire, fabric_vars, alg_vars, open_vars, id_vars>>

DrawMpcScalarMul ==
    \E lhs \in {"Public", "Shared"}, rhs \in {"Public", "Shared"} :
       Draw([fn |-> "mpc_scalar_mul", lhs |-> lhs, rhs |-> rhs],
            mpc_scalar_mul_draws(beaver_source, MpcScalar(0, lhs), MpcScalar(0, rhs)))

DrawMulAuthenticated ==
    Draw([fn |-> "mul_authenticated"], mul_authenticated_draws(beaver_source))

DrawMulScalar == Draw([fn |-> "mul_scalar"], mul_scalar_draws(beaver_source))

DrawMsm ==
    \E pairs \in 1 .. MaxPairs :
       Draw([fn |-> "msm", n |-> pairs], msm_draws(beaver_source, pairs))

DrawTripletBatch ==
    \E num_triplets \in 0 .. MaxPairs :
       Draw([fn |-> "next_triplet_batch", n |-> num_triplets],
            next_triplet_batch(beaver_source, num_triplets))

DrawNext ==
    \/ DrawMpcScalarMul
    \/ DrawMulAuthenticated
    \/ DrawMulScalar
    \/ DrawMsm
    \/ DrawTripletBatch

DrawSpec == DrawInit /\ [][DrawNext]_vars

\* the number of triplets the operation of a log entry is to draw
TripletsDue(entry) ==
    CASE entry.fn = "mpc_scalar_mul" ->
            IF entry.lhs = "Shared" /\ entry.rhs = "Shared" THEN 1 ELSE 0
      [] entry.fn = "mul_authenticated" -> 1
      [] entry.fn = "mul_scalar" -> 0
      [] entry.fn \in {"msm", "next_triplet_batch"} -> entry.n

\* all triplets drawn so far, in the order of the operations
RECURSIVE DrawnBy(_)
DrawnBy(log) == IF log = <<>> THEN <<>> ELSE log[1].triplets \o DrawnBy(Tail(log))

MSM_CHUNK_SIZE == 2
MaxLen == 3

\* sum of s_i * P_i over the first n positions
RECURSIVE inner_msm(_, _, _)
inner_msm(points, scalars, n) == IF n = 0 THEN identity ELSE point_add(inner_msm(points, scalars, n - 1), point_mul(points[n], scalars[n]))

\* VariableBaseMSM::msm_unchecked: over the shorter of the two slices
msm_unchecked(points, scalars) == inner_msm(points, scalars, Min(Len(points), Len(scalars)))

\* Itertools::chunks: the number of chunks, and the k-th of them
num_chunks(s) == (Len(s) + MSM_CHUNK_SIZE - 1) \div MSM_CHUNK_SIZE
chunk(s, k) == SubSeq(s, (k - 1) * MSM_CHUNK_SIZE + 1, Min(k * MSM_CHUNK_SIZE, Len(s)))

\* msm without the assertion on the lengths
msm_unasserted(scalars, points) == [state |-> "ok", value |-> msm_unchecked(points, scalars)]

\* StarkPoint::msm
msm(scalars, points) == IF Len(scalars) # Len(points) THEN [state |-> "panic: msm cannot compute on vectors of unequal length"] ELSE [state |-> "ok", value |-> inner_msm(points, scalars, Len(points))]

\* the loop of msm_iter over the zipped chunks, from chunk k on
RECURSIVE msm_iter_chunks(_, _, _, _)
msm_iter_chunks(scalars, points, k, res) == IF k > Min(num_chunks(scalars), num_chunks(points)) THEN res ELSE msm_iter_chunks(scalars, points, k + 1, point_add(res, msm_unchecked(chunk(points, k), chunk(scalars, k))))

\* StarkPoint::msm_iter
msm_iter(scalars, points) == [state |-> "ok", value |-> msm_iter_chunks(scalars, points, 1, identity)]

SeqsUpTo(S, n) == UNION {[1 .. k -> S] : k \in 0 .. n}

NotRun == [state |-> "none"]

MsmInit ==
    /\ FabricInit /\ AlgebraIdle /\ OpenIdle /\ ScalarIdle /\ IdIdle
    /\ party = Pair([pc |-> "idle"], [pc |-> "idle"])
    /\ wire = Pair(<<>>, <<>>)
    /\ \E scalars \in SeqsUpTo(Scalars, MaxLen), points \in SeqsUpTo(Points, MaxLen) :
          call = [fn |-> "msm", scalars |-> scalars, points |-> points,
                  msm |-> NotRun, msm_iter |-> NotRun]

DoMsm ==
    /\ call.msm = NotRun
    /\ call' = [call EXCEPT !.msm = msm(call.scalars, call.points)]
    /\ UNCHANGED <<party, wire, fabric_vars, alg_vars, open_vars, scalar_vars, id_vars>>

DoMsmIter ==
    /\ call.msm_iter = NotRun
    /\ call' = [call EXCEPT !.msm_iter = msm_iter(call.scalars, call.points)]
    /\ UNCHANGED <<party, wire, fabric_vars, alg_vars, open_vars, scalar_vars, id_vars>>

MsmNext == DoMsm \/ DoMsmIter

MsmSpec == MsmInit /\ [][MsmNext]_vars

MsmRun == call.msm # NotRun /\ call.msm_iter # NotRun

\* C40: on sequences of equal length, of any length, msm and msm_iter both
\* return the sum of s_i * P_i; on sequences of unequal length both reject
\* the call and neither computes over a truncated prefix.
C40_MsmAgree ==
    MsmRun =>
       IF Len(call.scalars) = Len(call.points)
       THEN /\ call.msm = [state |-> "ok",
                            value |-> inner_msm(call.points, call.scalars,
                                                Len(call.points))]
            /\ call.msm_iter = call.msm
       ELSE call.msm.state # "ok" /\ call.msm_iter.state # "ok"

\* C40 on sequences of equal length only
C40_MsmAgreeOnEqualLengths ==
    (MsmRun /\ Len(call.scalars) = Len(call.points))
    => /\ call.msm = [state |-> "ok",
                       value |-> inner_msm(call.points, call.scalars, Len(call.points))]
       /\ call.msm_iter = call.msm

\* of C40, what holds of msm alone: unequal lengths are rejected
C40_MsmRejectsUnequalLengths ==
    (call.msm # NotRun /\ Len(call.scalars) # Len(call.points))
    => call.msm.state # "ok"

\* ------------------------------- open_authenticated, run by both parties
\* Each party schedules the graph of open_authenticated on its own point; the
\* payloads its Network operations send travel on the wire to the peer and
\* arrive in the order sent.  A payload that arrives before the party has
\* scheduled its graph waits in the result buffer.
Opening(self) ==
    [pc |-> "start", local |-> self, received |-> NothingReceived,
     graph |-> NothingResolved, sent |-> {}]

PairInit ==
    /\ FabricInit /\ AlgebraIdle /\ OpenIdle /\ ScalarIdle /\ IdIdle
    /\ wire = Pair(<<>>, <<>>)
    /\ call = [fn |-> "none"]
    /\ \E mac \in Points, key \in [Parties -> Scalars] :
          party = [p \in Parties |->
                      Opening([share |-> generator,
                               mac |-> IF p = PARTY0 THEN identity ELSE mac,
                               public_modifier |-> identity,
                               mac_key |-> key[p], blinder |-> 1])]

\* the executor of party p runs every gate that is ready, and the payload of
\* every Network operation that ran goes on the wire to the peer
RunPairGraph(p, recv, inbound) ==
    LET g == open_authenticated_graph(party[p].local, recv)
        new == {m \in Sendable(party[p].local, g) : m.kind \notin party[p].sent}
    IN  /\ party' = [party EXCEPT ![p] =
                        [pc |-> "scheduled", local |-> party[p].local, received |-> recv,
                         graph |-> g, sent |-> party[p].sent \cup {m.kind : m \in new}]]
        /\ \E q \in Enumerations(new) :
              wire' = [wire EXCEPT ![p] = inbound, ![Peer(p)] = @ \o q]

\* party p calls open_authenticated
PairSchedule(p) ==
    /\ party[p].pc = "start"
    /\ RunPairGraph(p, party[p].received, wire[p])
    /\ UNCHANGED <<call, fabric_vars, alg_vars, open_vars, scalar_vars, id_vars>>

\* the oldest payload on the wire to party p is delivered
PairDeliver(p) ==
    /\ wire[p] # <<>>
    /\ LET m == Head(wire[p])
           recv == [party[p].received EXCEPT ![m.kind] = m.payload]
       IN  IF party[p].pc = "scheduled"
           THEN RunPairGraph(p, recv, Tail(wire[p]))
           ELSE /\ party' = [party EXCEPT ![p].received = recv]
                /\ wire' = [wire EXCEPT ![p] = Tail(@)]
    /\ UNCHANGED <<call, fabric_vars, alg_vars, open_vars, scalar_vars, id_vars>>

DoPairSchedule == \E p \in Parties : PairSchedule(p)
DoPairDeliver == \E p \in Parties : PairDeliver(p)

PairNext == DoPairSchedule \/ DoPairDeliver

\* both parties call open_authenticated, and every payload on the wire is
\* delivered
PairSpec ==
    /\ PairInit
    /\ [][PairNext]_vars
    /\ \A p \in Parties : WF_vars(PairSchedule(p)) /\ WF_vars(PairDeliver(p))

\* value and flag of the authenticated open are resolved on party p
OpenResolved(p) ==
    /\ party[p].graph.recovered_value # Unresolved
    /\ party[p].graph.commitment_check \in {0, 1}

\* C39: when both parties call open_authenticated and every payload sent is
\* delivered, value and flag are resolved on both parties in the end, also
\* when the flag is 0: a party sends its share and its blinder as soon as it
\* has scheduled the graph, and its commitment and MAC check value as soon as
\* the peer's share has arrived, so no send waits for a payload the peer
\* sends only after receiving it.
C39_OpenResolves ==
    /\ <>(\A p \in Parties : OpenResolved(p))
    /\ [](\A p \in Parties :
            party[p].pc = "scheduled" =>
               /\ {"share", "blinder"} \subseteq party[p].sent
               /\ party[p].received["share"] # Unresolved =>
                     {"commitment", "mac_check"} \subseteq party[p].sent)

\* C39 witness: the open is resolved on both parties with flag 0, everything
\* sent was delivered
C39_Witness ==
    /\ \A p \in Parties : OpenResolved(p) /\ party[p].graph.commitment_check = 0
    /\ wire = Pair(<<>>, <<>>)
    /\ party[0].graph.mac_check # identity

====
